---- MODULE Spec2Model ----
(***************************************************************************)
(* A model of robolina's case preserving replacer                          *)
(* (robolina::case_preserve_replacer<char>) and of the token finder it is  *)
(* built on (cpptokenfinder::token_finder).                                *)
(*                                                                         *)
(* Text is a sequence of code units (ASCII codes).  A pointer into the     *)
(* scanned buffer is the offset from the buffer's first code unit, the     *)
(* null pointer is nullptr.  The buffer of a text carries the zero code    *)
(* unit a C string ends with; the empty buffer stands for a null text.     *)
(***************************************************************************)
EXTENDS Integers, Sequences, FiniteSets, TLC

VARIABLES
    finder,      \* token_finder_data<default comparer>: the exact pattern set
    i_finder,    \* token_finder_data<ignore case comparer>: the fold pattern set
    pending,     \* the add_replacement calls the caller still makes
    added,       \* history: the arguments of every add_token call that returned true
    calls,       \* history: every add_replacement call made, [rule, thrown]
    buffer,      \* the memory text points to, zero code unit included
    text_size,   \* the text_size argument of find_and_replace
    context,     \* search_context of the exact set
    i_context,   \* search_context of the fold set
    sink,        \* the write calls the sink has received, in order
    pc,          \* where the caller is: "add", "loop", "tail", "done"
    read,        \* loadOptionsFromFile: the lines std::getline has returned
    currentOptions,      \* loadOptionsFromFile: the local of that name
    textToFindSet,       \* loadOptionsFromFile: the local of that name
    replacementTextSet,  \* loadOptionsFromFile: the local of that name
    replacementOptions,  \* loadOptionsFromFile: the caller's list of rules
    load_pc,     \* loadOptionsFromFile: "idle", "reading", "returned", "thrown"
    disk,        \* the directory: the content of each file, by file name
    path,        \* processFile: the file's name without its extension
    options,     \* processFile: ProcessingOptions, [dryRun, allowRename]
    content,     \* processFile: the local of that name, without its final zero
    newContent,  \* processFile: the local of that name
    hasChanges,  \* processFile: the local of that name
    newPath,     \* processFile: the local of that name, without the extension
    needsRename, \* processFile: the local of that name
    file_pc      \* processFile: "idle", "build", "content", "stem", "decided",
                 \* "written", "returned", "thrown"

\* The state of the replacer and its caller.
replacer_vars == <<finder, i_finder, pending, added, calls, buffer, text_size,
                   context, i_context, sink, pc>>

\* The state of processFile.
file_vars == <<disk, path, options, content, newContent, hasChanges, newPath,
               needsRename, file_pc>>

\* The state of the command line tool.
cli_vars == <<read, currentOptions, textToFindSet, replacementTextSet,
              replacementOptions, load_pc, disk, path, options, content,
              newContent, hasChanges, newPath, needsRename, file_pc>>

vars == <<finder, i_finder, pending, added, calls, buffer, text_size,
          context, i_context, sink, pc, cli_vars>>

(***************************************************************************)
(* Program constants.                                                      *)
(***************************************************************************)
\* static_cast<size_t>(-1): the id no token has.
c_invalid_token_id == -1

\* The null pointer (token_begin / token_end of a context without a token).
nullptr == -1

(***************************************************************************)
(* <cctype> in the "C" locale, as the replacer uses it.                    *)
(***************************************************************************)
islower(c) == c >= 97 /\ c <= 122

isupper(c) == c >= 65 /\ c <= 90

isdigit(c) == c >= 48 /\ c <= 57

isalnum(c) == islower(c) \/ isupper(c) \/ isdigit(c)

tolower(c) == IF isupper(c) THEN c + 32 ELSE c

toupper(c) == IF islower(c) THEN c - 32 ELSE c

(***************************************************************************)
(* Sequence helpers.                                                       *)
(***************************************************************************)
\* The code units [b, e) of s, b and e being offsets.
Span(s, b, e) == IF e <= b THEN <<>> ELSE SubSeq(s, b + 1, e)

(***************************************************************************)
(* Casing analyzer: split_text and the nine renderings.                    *)
(***************************************************************************)
RECURSIVE split_text_loop_at_every_upper(_, _, _, _)
\* Mutant of split_text_loop: a new word begins at every uppercase letter.
split_text_loop_at_every_upper(text, p, words, current_word) ==
    IF p > Len(text) THEN
        IF current_word # <<>> THEN Append(words, current_word) ELSE words
    ELSE IF text[p] = 32 \/ text[p] = 45 \/ text[p] = 95 THEN
        split_text_loop_at_every_upper(text, p + 1,
                        IF current_word # <<>> THEN Append(words, current_word)
                                               ELSE words,
                        <<>>)
    ELSE IF current_word # <<>> /\ isupper(text[p]) THEN
        split_text_loop_at_every_upper(text, p + 1, Append(words, current_word),
                                       <<text[p]>>)
    ELSE
        split_text_loop_at_every_upper(text, p + 1, words,
                                       Append(current_word, text[p]))

RECURSIVE split_text_loop(_, _, _, _)
\* The for loop of split_text; p is the 1-based index of *p in text.
split_text_loop(text, p, words, current_word) ==
    IF p > Len(text) THEN
        IF current_word # <<>> THEN Append(words, current_word) ELSE words
    ELSE IF text[p] = 32 \/ text[p] = 45 \/ text[p] = 95 THEN
        split_text_loop(text, p + 1,
                        IF current_word # <<>> THEN Append(words, current_word)
                                               ELSE words,
                        <<>>)
    ELSE IF current_word # <<>> /\ islower(text[p - 1]) /\ isupper(text[p]) THEN
        split_text_loop(text, p + 1, Append(words, current_word), <<text[p]>>)
    ELSE
        split_text_loop(text, p + 1, words, Append(current_word, text[p]))

split_text(text) ==
    IF text = <<>> THEN <<>> ELSE split_text_loop(text, 1, <<>>, <<>>)

RECURSIVE to_normal_text_loop(_, _)
to_normal_text_loop(words, result) ==
    IF words = <<>> THEN result
    ELSE to_normal_text_loop(Tail(words),
             (IF result # <<>> THEN Append(result, 32) ELSE result) \o Head(words))

to_normal_text(words) == to_normal_text_loop(words, <<>>)

\* Mutant of CasedWord: the code units after the first keep their case.
CasedWord_keep_rest(upper_first, word) ==
    [i \in 1..Len(word) |-> IF i > 1 THEN word[i]
                            ELSE IF upper_first THEN toupper(word[i])
                            ELSE tolower(word[i])]

\* A word with its first code unit uppercased (upper_first) or lowercased and
\* the rest lowercased.
CasedWord(upper_first, word) ==
    [i \in 1..Len(word) |-> IF i = 1 /\ upper_first THEN toupper(word[i])
                                                      ELSE tolower(word[i])]

RECURSIVE to_camel_case_loop(_, _, _)
to_camel_case_loop(words, result, first_word) ==
    IF words = <<>> THEN result
    ELSE IF Head(words) = <<>> THEN
        to_camel_case_loop(Tail(words), result, first_word)
    ELSE IF first_word THEN
        to_camel_case_loop(Tail(words), result \o CasedWord(FALSE, Head(words)), FALSE)
    ELSE
        to_camel_case_loop(Tail(words), result \o CasedWord(TRUE, Head(words)), FALSE)

to_camel_case(words) == to_camel_case_loop(words, <<>>, TRUE)

RECURSIVE to_pascal_case_loop(_, _)
to_pascal_case_loop(words, result) ==
    IF words = <<>> THEN result
    ELSE IF Head(words) = <<>> THEN to_pascal_case_loop(Tail(words), result)
    ELSE to_pascal_case_loop(Tail(words), result \o CasedWord(TRUE, Head(words)))

to_pascal_case(words) == to_pascal_case_loop(words, <<>>)

RECURSIVE to_lowercase(_)
to_lowercase(words) ==
    IF words = <<>> THEN <<>>
    ELSE [i \in 1..Len(Head(words)) |-> tolower(Head(words)[i])]
         \o to_lowercase(Tail(words))

RECURSIVE to_uppercase(_)
to_uppercase(words) ==
    IF words = <<>> THEN <<>>
    ELSE [i \in 1..Len(Head(words)) |-> toupper(Head(words)[i])]
         \o to_uppercase(Tail(words))

RECURSIVE joined_case_loop(_, _, _, _, _)
\* The loop shared by to_snake_case and to_kebab_case; separator is '_' or '-'.
joined_case_loop(words, uppercase, separator, result, first_word) ==
    IF words = <<>> THEN result
    ELSE IF Head(words) = <<>> THEN
        joined_case_loop(Tail(words), uppercase, separator, result, first_word)
    ELSE
        joined_case_loop(Tail(words), uppercase, separator,
            (IF ~first_word THEN Append(result, separator) ELSE result)
            \o [i \in 1..Len(Head(words)) |->
                   IF uppercase THEN toupper(Head(words)[i])
                                ELSE tolower(Head(words)[i])],
            FALSE)

to_snake_case(words, uppercase) == joined_case_loop(words, uppercase, 95, <<>>, TRUE)

to_lower_snake_case(words) == to_snake_case(words, FALSE)

to_upper_snake_case(words) == to_snake_case(words, TRUE)

to_kebab_case(words, uppercase) == joined_case_loop(words, uppercase, 45, <<>>, TRUE)

to_lower_kebab_case(words) == to_kebab_case(words, FALSE)

to_upper_kebab_case(words) == to_kebab_case(words, TRUE)

\* The nine renderings in the order add_replacement installs them.
Renderings(words) ==
    << to_normal_text(words), to_camel_case(words), to_pascal_case(words),
       to_lowercase(words), to_uppercase(words),
       to_lower_snake_case(words), to_upper_snake_case(words),
       to_lower_kebab_case(words), to_upper_kebab_case(words) >>

(***************************************************************************)
(* cpptokenfinder::token_finder.  The search tree is kept as the sequence  *)
(* of its entries in creation order: entry n is                            *)
(* [character, token_id, parent], parent being the entry whose             *)
(* next_entries holds n (0 for the root list).  Entries are only ever      *)
(* appended with emplace_back, so the entries of one list, in list order,  *)
(* are the entries with that parent in increasing n.                       *)
(***************************************************************************)
\* Mutant of token_finder_default_comparer: letters compare up to their case.
token_finder_default_comparer_folding(value_lhs, value_rhs) ==
    tolower(value_lhs) = tolower(value_rhs)

token_finder_default_comparer(value_lhs, value_rhs) == value_lhs = value_rhs

\* Mutant of token_finder_ignore_case_comparer: code units that differ by 32
\* in the same block of 64 compare equal, letters or not.
token_finder_ignore_case_comparer_any_block(value_lhs, value_rhs) ==
    /\ value_lhs % 32 = value_rhs % 32
    /\ value_lhs \div 64 = value_rhs \div 64

token_finder_ignore_case_comparer(value_lhs, value_rhs) ==
    tolower(value_lhs) = tolower(value_rhs)

\* The comparer member of a token_finder; kind names the comparer_type.
comparer(kind, character_of_token, character_of_text) ==
    IF kind = "ignore_case"
    THEN token_finder_ignore_case_comparer(character_of_token, character_of_text)
    ELSE token_finder_default_comparer(character_of_token, character_of_text)

\* The first of the entries S of one list (0 if there is none): entries are
\* numbered in the order emplace_back appended them.
FirstOf(S) == IF S = {} THEN 0 ELSE CHOOSE n \in S : \A m \in S : n <= m

\* The first entry of the list below parent that the range-for with its
\* break stops at when adding (exact equality); 0 if the loop runs out.
FirstEqualEntry(nodes, parent, c) ==
    FirstOf({n \in 1..Len(nodes) : nodes[n].parent = parent /\ nodes[n].character = c})

\* The same when searching: the first entry the comparer accepts.
FirstMatchingEntry(nodes, kind, parent, c) ==
    FirstOf({n \in 1..Len(nodes) :
                nodes[n].parent = parent /\ comparer(kind, nodes[n].character, c)})

RECURSIVE add_token_loop(_, _, _, _, _)
\* One pass of the outer for loop of add_token_implementation, n being the
\* entry of the current list that holds the character (0: none does).
add_token_step(nodes, token_string, i, current, token_id, n) ==
    IF n # 0 THEN
        IF i = Len(token_string) /\ nodes[n].token_id # c_invalid_token_id
        THEN [nodes |-> nodes, thrown |-> TRUE]
        ELSE add_token_loop(
                IF i = Len(token_string) THEN [nodes EXCEPT ![n].token_id = token_id]
                                         ELSE nodes,
                token_string, i + 1, n, token_id)
    ELSE
        add_token_loop(
            Append(nodes, [character |-> token_string[i],
                           token_id  |-> IF i = Len(token_string)
                                         THEN token_id ELSE c_invalid_token_id,
                           parent    |-> current]),
            token_string, i + 1, Len(nodes) + 1, token_id)

\* The outer for loop of add_token_implementation; i is the 1-based index of
\* character_of_token, current the entry owning the current list.
add_token_loop(nodes, token_string, i, current, token_id) ==
    IF i > Len(token_string) THEN [nodes |-> nodes, thrown |-> FALSE]
    ELSE add_token_step(nodes, token_string, i, current, token_id,
                        FirstEqualEntry(nodes, current, token_string[i]))

add_token_implementation(nodes, token_string, token_id) ==
    IF token_id = c_invalid_token_id THEN [nodes |-> nodes, thrown |-> TRUE]
    ELSE add_token_loop(nodes, token_string, 1, 0, token_id)

\* token_finder::add_token(const string_type&, token_id).
token_finder_add_token(nodes, token_string, token_id) ==
    IF token_string = <<>> THEN [nodes |-> nodes, thrown |-> TRUE]
    ELSE add_token_implementation(nodes, token_string, token_id)

\* is_end_position of string_wrapper ("string") and of
\* null_terminated_string_wrapper ("null_terminated"); pos is an offset.
is_end_position(wrapper, text, pos) ==
    IF wrapper = "string" THEN pos = Len(text) ELSE text[pos + 1] = 0

RECURSIVE find_token_descend(_, _, _, _, _, _, _)
\* Mutant of find_token_descend_step: the inner loop ends at the first
\* token it meets.
find_token_descend_step_shortest(nodes, kind, wrapper, text, q, best, n) ==
    IF n = 0 THEN best
    ELSE IF nodes[n].token_id # c_invalid_token_id
    THEN [found |-> TRUE, token_end |-> q + 1, token_id |-> nodes[n].token_id]
    ELSE find_token_descend(nodes, kind, wrapper, text, q + 1, n, best)

\* One pass of the inner for loop of find_token_implementation, n being the
\* first entry of the current list the comparer accepts (0: none).
find_token_descend_step(nodes, kind, wrapper, text, q, best, n) ==
    IF n = 0 THEN best
    ELSE find_token_descend(nodes, kind, wrapper, text, q + 1, n,
             IF nodes[n].token_id # c_invalid_token_id
             THEN [found |-> TRUE, token_end |-> q + 1, token_id |-> nodes[n].token_id]
             ELSE best)

\* The inner for loop of find_token_implementation: character_token is at
\* offset q, the current list is the one below entry current, best is the
\* token recorded so far ([found |-> FALSE] if none).
find_token_descend(nodes, kind, wrapper, text, q, current, best) ==
    IF is_end_position(wrapper, text, q) THEN best
    ELSE find_token_descend_step(nodes, kind, wrapper, text, q, best,
             FirstMatchingEntry(nodes, kind, current, text[q + 1]))

RECURSIVE find_token_implementation(_, _, _, _, _)
\* One pass of the outer for loop, r being what the inner loop recorded.
find_token_at(nodes, kind, wrapper, text, pos, r) ==
    IF r.found
    THEN [found |-> TRUE, token_begin |-> pos,
          token_end |-> r.token_end, token_id |-> r.token_id]
    ELSE find_token_implementation(nodes, kind, wrapper, text, pos + 1)

\* The outer for loop, character_text at offset pos.  The result is
\* [found |-> FALSE] or [found, token_begin, token_end, token_id].
find_token_implementation(nodes, kind, wrapper, text, pos) ==
    IF is_end_position(wrapper, text, pos) THEN [found |-> FALSE]
    ELSE find_token_at(nodes, kind, wrapper, text, pos,
             find_token_descend(nodes, kind, wrapper, text, pos, 0, [found |-> FALSE]))

(***************************************************************************)
(* search_context.                                                         *)
(***************************************************************************)
\* Mutant of advance_current_to: the token is dropped and current is left
\* where it was.
advance_current_to_drop_only(ctx, new_current) ==
    IF ctx.token_begin # nullptr /\ ctx.token_begin < new_current
    THEN [ctx EXCEPT !.token_begin = nullptr, !.token_end = nullptr,
                     !.token_id = c_invalid_token_id]
    ELSE ctx

\* Mutant of advance_current_to: the token is dropped wherever it begins.
advance_current_to_always_drops(ctx, new_current) ==
    [ctx EXCEPT !.current = new_current, !.token_begin = nullptr,
                !.token_end = nullptr, !.token_id = c_invalid_token_id]

advance_current_to(ctx, new_current) ==
    IF ctx.token_begin # nullptr /\ ctx.token_begin < new_current
    THEN [ctx EXCEPT !.current = new_current, !.token_begin = nullptr,
                     !.token_end = nullptr, !.token_id = c_invalid_token_id]
    ELSE [ctx EXCEPT !.current = new_current]

next_token(ctx) ==
    IF ctx.token_end # nullptr THEN [ctx EXCEPT !.current = ctx.token_end] ELSE ctx

overlaps(ctx, other) ==
    \/ (ctx.token_begin < other.token_end /\ other.token_begin < ctx.token_end)
    \/ ctx.token_begin = other.token_begin

token_found(ctx) == ctx.token_id # c_invalid_token_id

\* search_context::write: the two sink.write calls, appended to the sink.
\* A write of input text is [kind |-> "text", begin, end]; a write of a
\* replacement text is [kind |-> "replacement", hit_begin, hit_end, text].
write(ctx, data, snk) ==
    Append(snk, [kind |-> "text", begin |-> ctx.current, end |-> ctx.token_begin])
    \o IF ctx.token_id # c_invalid_token_id
       THEN << [kind |-> "replacement",
                begin |-> ctx.token_begin, end |-> ctx.token_end,
                text |-> data.replacement_entries[ctx.token_id + 1].replacement_text] >>
       ELSE <<>>

(***************************************************************************)
(* token_finder_data: a token_finder with its replacement_entries.         *)
(***************************************************************************)
\* Mutant of is_whole_word: only the code unit before the token is looked
\* at.
is_whole_word_left_only(hit, text) ==
    ~(/\ hit.token_begin > hit.full_text_begin
      /\ isalnum(text[hit.token_begin]))

\* The whole word check of token_finder_data::find_token on the token hit
\* holds.
is_whole_word(hit, text) ==
    /\ ~(/\ hit.token_begin > hit.full_text_begin
         /\ isalnum(text[hit.token_begin]))
    /\ ~(/\ hit.token_end < hit.full_text_end
         /\ isalnum(text[hit.token_end + 1]))

RECURSIVE find_token_loop(_, _, _, _)
\* The body of the while loop for a found token, hit being the context the
\* token finder has filled in.
find_token_found(data, kind, hit, text) ==
    IF /\ data.replacement_entries[hit.token_id + 1].match_whole_word
       /\ ~is_whole_word(hit, text)
    THEN find_token_loop(data, kind, next_token(hit), text)
    ELSE hit

\* Mutant of find_token_pass: a search that finds nothing clears the token
\* id only.
find_token_pass_keeps_span(data, kind, ctx, text, r) ==
    IF ~r.found
    THEN [ctx EXCEPT !.token_id = c_invalid_token_id]
    ELSE find_token_found(data, kind,
             [ctx EXCEPT !.token_begin = r.token_begin,
                         !.token_end = r.token_end,
                         !.token_id = r.token_id],
             text)

\* One pass of the while loop, r being the result of token_finder.find_token.
find_token_pass(data, kind, ctx, text, r) ==
    IF ~r.found
    THEN [ctx EXCEPT !.token_begin = nullptr, !.token_end = nullptr,
                     !.token_id = c_invalid_token_id]
    ELSE find_token_found(data, kind,
             [ctx EXCEPT !.token_begin = r.token_begin,
                         !.token_end = r.token_end,
                         !.token_id = r.token_id],
             text)

\* The while loop of token_finder_data::find_token; r is the one result of
\* the one call of token_finder.find_token a pass makes.
find_token_loop(data, kind, ctx, text) ==
    CHOOSE hit \in
        { find_token_pass(data, kind, ctx, text, r) :
              r \in { find_token_implementation(data.token_finder, kind,
                                                "null_terminated", text, ctx.current) } } :
        TRUE

find_token(data, kind, ctx, text) ==
    [find_token_loop(data, kind, ctx, text) EXCEPT !.current = ctx.current]

\* Mutant of add_token_entry: the replacement entry is appended also when
\* the token finder has thrown.
add_token_entry_always_appends(data, replacement_text, match_whole_word, a) ==
    [data |-> [token_finder |-> a.nodes,
               replacement_entries |->
                   Append(data.replacement_entries,
                          [replacement_text |-> replacement_text,
                           match_whole_word |-> match_whole_word])],
     result |-> ~a.thrown, thrown |-> a.thrown]

\* add_token once the token finder has added the token (a is its outcome).
add_token_entry(data, replacement_text, match_whole_word, a) ==
    IF a.thrown
    THEN [data |-> [data EXCEPT !.token_finder = a.nodes],
          result |-> FALSE, thrown |-> TRUE]
    ELSE [data |-> [token_finder |-> a.nodes,
                    replacement_entries |->
                        Append(data.replacement_entries,
                               [replacement_text |-> replacement_text,
                                match_whole_word |-> match_whole_word])],
          result |-> TRUE, thrown |-> FALSE]

\* Mutant of add_token_checked: the key is added without regard to the
\* lookup.
add_token_checked_no_lookup(data, text_to_find, replacement_text, match_whole_word, f) ==
    add_token_entry(data, replacement_text, match_whole_word,
        token_finder_add_token(data.token_finder, text_to_find,
                               Len(data.replacement_entries)))

\* add_token after its lookup of text_to_find (f is what the lookup found).
add_token_checked(data, text_to_find, replacement_text, match_whole_word, f) ==
    IF f.found /\ f.token_begin = 0 /\ f.token_end = Len(text_to_find)
    THEN [data |-> data, result |-> FALSE, thrown |-> FALSE]
    ELSE add_token_entry(data, replacement_text, match_whole_word,
             token_finder_add_token(data.token_finder, text_to_find,
                                    Len(data.replacement_entries)))

\* token_finder_data::add_token: [data, result, thrown].
add_token(data, kind, text_to_find, replacement_text, match_whole_word) ==
    add_token_checked(data, text_to_find, replacement_text, match_whole_word,
        find_token_implementation(data.token_finder, kind, "string", text_to_find, 0))

(***************************************************************************)
(* case_preserve_replacer.                                                 *)
(*                                                                         *)
(* A const char_type* argument is the sequence of its code units before    *)
(* the terminating zero; the null pointer is NullText.                     *)
(***************************************************************************)
NullText == <<nullptr>>

EmptyData == [token_finder |-> <<>>, replacement_entries |-> <<>>]

\* The record of an add_token call that returned true.
Added(set, a, key, replacement_text, match_whole_word) ==
    IF a.result
    THEN << [set |-> set, key |-> key, replacement_text |-> replacement_text,
             match_whole_word |-> match_whole_word] >>
    ELSE <<>>

RECURSIVE add_renderings(_, _, _, _, _, _)
\* After the k-th finder.add_token call of the preserve_case branch, a being
\* its outcome.
add_renderings_next(finds, replacements, match_whole_word, k, log, a) ==
    IF a.thrown THEN [data |-> a.data, thrown |-> TRUE, log |-> log]
    ELSE add_renderings(a.data, finds, replacements, match_whole_word, k + 1,
             log \o Added("finder", a, finds[k], replacements[k], match_whole_word))

\* Mutant of add_renderings: every rendering of the find text is installed
\* with the normal rendering of the replacement text.
add_renderings_normal_only(data, finds, replacements, match_whole_word, k, log) ==
    IF k > Len(finds) THEN [data |-> data, thrown |-> FALSE, log |-> log]
    ELSE add_renderings_next(finds, <<replacements[1], replacements[1], replacements[1],
                                      replacements[1], replacements[1], replacements[1],
                                      replacements[1], replacements[1], replacements[1]>>,
                             match_whole_word, k, log,
             add_token(data, "default", finds[k], replacements[1], match_whole_word))

\* Mutant of add_renderings: rendering k of the find text is installed with
\* the rendering after the k-th of the replacement text.
add_renderings_shifted(data, finds, replacements, match_whole_word, k, log) ==
    IF k > Len(finds) THEN [data |-> data, thrown |-> FALSE, log |-> log]
    ELSE add_renderings_next(finds, replacements, match_whole_word, k, log,
             add_token(data, "default", finds[k],
                       replacements[(k % Len(replacements)) + 1], match_whole_word))

\* The nine finder.add_token calls of the preserve_case branch, from the
\* k-th on; log collects the calls that returned true.
add_renderings(data, finds, replacements, match_whole_word, k, log) ==
    IF k > Len(finds) THEN [data |-> data, thrown |-> FALSE, log |-> log]
    ELSE add_renderings_next(finds, replacements, match_whole_word, k, log,
             add_token(data, "default", finds[k], replacements[k], match_whole_word))

\* The outcome of add_replacement: the two pattern sets after the call,
\* whether it threw, and the add_token calls that returned true.
Outcome(fnd, i_fnd, thrown, log) ==
    [finder |-> fnd, i_finder |-> i_fnd, thrown |-> thrown, log |-> log]

\* The preserve_case branch for a find text of at least one word.
add_preserve_case(fnd, i_fnd, r) == Outcome(r.data, i_fnd, r.thrown, r.log)

\* The ignore_case branch, a being the outcome of i_finder.add_token.
add_ignore_case(fnd, i_fnd, text_to_find, replacement_text, match_whole_word, a) ==
    Outcome(fnd, a.data, a.thrown,
            Added("i_finder", a, text_to_find, replacement_text, match_whole_word))

\* The match_case branch, a being the outcome of finder.add_token.
add_match_case(fnd, i_fnd, text_to_find, replacement_text, match_whole_word, a) ==
    Outcome(a.data, i_fnd, a.thrown,
            Added("finder", a, text_to_find, replacement_text, match_whole_word))

\* Mutant of add_replacement: a null replacement text is not rejected.
add_replacement_null_unchecked(fnd, i_fnd, text_to_find, replacement_text, mode, match_whole_word) ==
    IF text_to_find = NullText \/ text_to_find = <<>>
    THEN Outcome(fnd, i_fnd, TRUE, <<>>)
    ELSE IF mode = "ignore_case" THEN
        add_ignore_case(fnd, i_fnd, text_to_find, replacement_text, match_whole_word,
            add_token(i_fnd, "ignore_case", text_to_find, replacement_text,
                      match_whole_word))
    ELSE IF mode = "match_case" THEN
        add_match_case(fnd, i_fnd, text_to_find, replacement_text, match_whole_word,
            add_token(fnd, "default", text_to_find, replacement_text,
                      match_whole_word))
    ELSE Outcome(fnd, i_fnd, TRUE, <<>>)

\* Mutant of add_replacement: a preserve_case replacement text without a
\* word is rejected like a find text without a word.
add_replacement_words_required(fnd, i_fnd, text_to_find, replacement_text, mode, match_whole_word) ==
    IF text_to_find = NullText \/ text_to_find = <<>>
    THEN Outcome(fnd, i_fnd, TRUE, <<>>)
    ELSE IF replacement_text = NullText
    THEN Outcome(fnd, i_fnd, TRUE, <<>>)
    ELSE IF mode = "preserve_case" THEN
        IF split_text(text_to_find) = <<>> \/ split_text(replacement_text) = <<>>
        THEN Outcome(fnd, i_fnd, TRUE, <<>>)
        ELSE add_preserve_case(fnd, i_fnd,
                 add_renderings(fnd, Renderings(split_text(text_to_find)),
                                Renderings(split_text(replacement_text)),
                                match_whole_word, 1, <<>>))
    ELSE IF mode = "ignore_case" THEN
        add_ignore_case(fnd, i_fnd, text_to_find, replacement_text, match_whole_word,
            add_token(i_fnd, "ignore_case", text_to_find, replacement_text,
                      match_whole_word))
    ELSE IF mode = "match_case" THEN
        add_match_case(fnd, i_fnd, text_to_find, replacement_text, match_whole_word,
            add_token(fnd, "default", text_to_find, replacement_text,
                      match_whole_word))
    ELSE Outcome(fnd, i_fnd, TRUE, <<>>)

\* add_replacement on the two pattern sets.
add_replacement(fnd, i_fnd, text_to_find, replacement_text, mode, match_whole_word) ==
    IF text_to_find = NullText \/ text_to_find = <<>>
    THEN Outcome(fnd, i_fnd, TRUE, <<>>)
    ELSE IF replacement_text = NullText
    THEN Outcome(fnd, i_fnd, TRUE, <<>>)
    ELSE IF mode = "preserve_case" THEN
        IF split_text(text_to_find) = <<>>
        THEN Outcome(fnd, i_fnd, TRUE, <<>>)
        ELSE add_preserve_case(fnd, i_fnd,
                 add_renderings(fnd, Renderings(split_text(text_to_find)),
                                Renderings(split_text(replacement_text)),
                                match_whole_word, 1, <<>>))
    ELSE IF mode = "ignore_case" THEN
        add_ignore_case(fnd, i_fnd, text_to_find, replacement_text, match_whole_word,
            add_token(i_fnd, "ignore_case", text_to_find, replacement_text,
                      match_whole_word))
    ELSE IF mode = "match_case" THEN
        add_match_case(fnd, i_fnd, text_to_find, replacement_text, match_whole_word,
            add_token(fnd, "default", text_to_find, replacement_text,
                      match_whole_word))
    ELSE Outcome(fnd, i_fnd, TRUE, <<>>)

\* A default constructed search_context.
NoContext ==
    [full_text_begin |-> nullptr, full_text_end |-> nullptr, current |-> nullptr,
     token_begin |-> nullptr, token_end |-> nullptr, token_id |-> c_invalid_token_id]

(***************************************************************************)
(* The caller: it installs its rules one add_replacement call at a time    *)
(* (an exception is caught and the next rule is installed), then scans     *)
(* one text with find_and_replace.                                         *)
(***************************************************************************)
(***************************************************************************)
(* The command line tool (src/cli/main.cpp): the replacements file reader  *)
(* loadOptionsFromFile.  A line is the sequence of its characters' codes.  *)
(***************************************************************************)
\* std::string::npos: the position std::string::find returns for no match.
npos == -1

\* "-->"
Arrow == <<45, 45, 62>>

\* "text-to-find", "replacement-text", "match-whole-word", "case-mode",
\* "pair": the names the reader knows.
KeyTextToFind == <<116, 101, 120, 116, 45, 116, 111, 45, 102, 105, 110, 100>>

KeyReplacementText == <<114, 101, 112, 108, 97, 99, 101, 109, 101, 110, 116, 45, 116, 101, 120, 116>>

KeyMatchWholeWord == <<109, 97, 116, 99, 104, 45, 119, 104, 111, 108, 101, 45, 119, 111, 114, 100>>

KeyCaseMode == <<99, 97, 115, 101, 45, 109, 111, 100, 101>>

KeyPair == <<112, 97, 105, 114>>

\* "true", "false", "preserve", "ignore", "match": the values the reader
\* knows.
ValueTrue == <<116, 114, 117, 101>>

ValueFalse == <<102, 97, 108, 115, 101>>

ValuePreserve == <<112, 114, 101, 115, 101, 114, 118, 101>>

ValueIgnore == <<105, 103, 110, 111, 114, 101>>

ValueMatch == <<109, 97, 116, 99, 104>>

\* A default constructed ReplacementOptions.
DefaultReplacementOptions ==
    [textToFind |-> <<>>, replacementText |-> <<>>,
     caseMode |-> "preserve_case", matchWholeWord |-> FALSE]

\* std::string::find(sub): the first position at which sub occurs in s.
string_find(s, sub) ==
    IF \E p \in 0..(Len(s) - Len(sub)) : Span(s, p, p + Len(sub)) = sub
    THEN CHOOSE p \in 0..(Len(s) - Len(sub)) :
             /\ Span(s, p, p + Len(sub)) = sub
             /\ \A q \in 0..(p - 1) : Span(s, q, q + Len(sub)) # sub
    ELSE npos

\* std::getline(lineStream, key, '=') && std::getline(lineStream, value) on
\* a line that is not empty: there is a '=' and at least one character
\* after the first one.
getline_key_value(line) ==
    /\ string_find(line, <<61>>) # npos
    /\ string_find(line, <<61>>) + 1 < Len(line)

\* key and value as the two getline calls leave them.
getline_key(line) == Span(line, 0, string_find(line, <<61>>))

getline_value(line) == Span(line, string_find(line, <<61>>) + 1, Len(line))

\* The locals of loadOptionsFromFile after the branches of one line;
\* thrown: a std::runtime_error has left the function.
LineResult(current, find_set, replacement_set, thrown) ==
    [currentOptions |-> current, textToFindSet |-> find_set,
     replacementTextSet |-> replacement_set, thrown |-> thrown]

\* The "pair" branch and the branch of a line without key and value:
\* s is split at its first "-->".
set_pair(current, find_set, replacement_set, s, delimiterPos) ==
    IF delimiterPos = npos
    THEN LineResult(current, find_set, replacement_set, TRUE)
    ELSE LineResult([current EXCEPT
                        !.textToFind = Span(s, 0, delimiterPos),
                        !.replacementText = Span(s, delimiterPos + 3, Len(s))],
                    TRUE, TRUE, FALSE)

\* The "match-whole-word" branch: the assignment, then the check.
set_match_whole_word(current, find_set, replacement_set, value) ==
    LineResult([current EXCEPT !.matchWholeWord = (value = ValueTrue)],
               find_set, replacement_set,
               value # ValueTrue /\ value # ValueFalse)

\* The "case-mode" branch.
set_case_mode(current, find_set, replacement_set, value) ==
    IF value = ValuePreserve
    THEN LineResult([current EXCEPT !.caseMode = "preserve_case"],
                    find_set, replacement_set, FALSE)
    ELSE IF value = ValueIgnore
    THEN LineResult([current EXCEPT !.caseMode = "ignore_case"],
                    find_set, replacement_set, FALSE)
    ELSE IF value = ValueMatch
    THEN LineResult([current EXCEPT !.caseMode = "match_case"],
                    find_set, replacement_set, FALSE)
    ELSE LineResult(current, find_set, replacement_set, TRUE)

\* The if / else if chain over key of a line with key and value.
key_value_line(current, find_set, replacement_set, key, value) ==
    IF key = KeyTextToFind
    THEN LineResult([current EXCEPT !.textToFind = value],
                    TRUE, replacement_set, FALSE)
    ELSE IF key = KeyReplacementText
    THEN LineResult([current EXCEPT !.replacementText = value],
                    find_set, TRUE, FALSE)
    ELSE IF key = KeyMatchWholeWord
    THEN set_match_whole_word(current, find_set, replacement_set, value)
    ELSE IF key = KeyCaseMode
    THEN set_case_mode(current, find_set, replacement_set, value)
    ELSE IF key = KeyPair
    THEN set_pair(current, find_set, replacement_set, value,
                  string_find(value, Arrow))
    ELSE LineResult(current, find_set, replacement_set, TRUE)

\* The body of the while loop for a line that is neither empty nor a
\* comment, up to the check that adds currentOptions to the list.
parse_line(current, find_set, replacement_set, line) ==
    IF getline_key_value(line)
    THEN key_value_line(current, find_set, replacement_set,
                        getline_key(line), getline_value(line))
    ELSE set_pair(current, find_set, replacement_set, line,
                  string_find(line, Arrow))

\* Mutant of push_back_when_set: the two flags stay set after the rule has
\* been added.
push_back_when_set_keeps_flags(list, r) ==
    IF r.textToFindSet /\ r.replacementTextSet
    THEN [replacementOptions |-> Append(list, r.currentOptions),
          textToFindSet |-> TRUE, replacementTextSet |-> TRUE]
    ELSE [replacementOptions |-> list,
          textToFindSet |-> r.textToFindSet,
          replacementTextSet |-> r.replacementTextSet]

\* The end of the loop body: currentOptions is added to the list when both
\* flags are set, and both flags are cleared then.
push_back_when_set(list, r) ==
    IF r.textToFindSet /\ r.replacementTextSet
    THEN [replacementOptions |-> Append(list, r.currentOptions),
          textToFindSet |-> FALSE, replacementTextSet |-> FALSE]
    ELSE [replacementOptions |-> list,
          textToFindSet |-> r.textToFindSet,
          replacementTextSet |-> r.replacementTextSet]

\* loadOptionsFromFile before it is called.
LoadIdle ==
    /\ read = <<>>
    /\ currentOptions = DefaultReplacementOptions
    /\ textToFindSet = FALSE
    /\ replacementTextSet = FALSE
    /\ replacementOptions = <<>>
    /\ load_pc = "idle"

(***************************************************************************)
(* The command line tool: processFile.  The directory is a function from   *)
(* the names of the files that exist to their contents; all files have the *)
(* same extension, which a rename keeps.                                   *)
(***************************************************************************)
\* A default constructed ProcessingOptions.
DefaultProcessingOptions == [dryRun |-> FALSE, allowRename |-> TRUE]

\* Mutant of exists: no destination is seen.
exists_never(d, p) == FALSE

\* fs::exists(p) in the directory d.
exists(d, p) == p \in DOMAIN d

\* The directory d after fs::rename(from, to).
rename(d, from, to) ==
    [p \in (DOMAIN d \ {from}) \cup {to} |-> IF p = to THEN d[from] ELSE d[p]]

\* The directory d after newContent has been written to the file p through
\* a std::ofstream.
write_file(d, p, data) == [d EXCEPT ![p] = data]

\* The locals of processFile before it is called.
FileLocalsIdle ==
    /\ content = <<>>
    /\ newContent = <<>>
    /\ hasChanges = FALSE
    /\ newPath = <<>>
    /\ needsRename = FALSE

\* The command line tool before it has done anything.
CliIdle ==
    /\ LoadIdle
    /\ disk = <<>>
    /\ path = <<>>
    /\ options = DefaultProcessingOptions
    /\ FileLocalsIdle
    /\ file_pc = "idle"

\* The replacer after construction, with the add_replacement calls its
\* caller is about to make and the arguments of its find_and_replace call.
StartReplacer(rules, text, size) ==
    /\ finder = EmptyData
    /\ i_finder = EmptyData
    /\ pending = rules
    /\ added = <<>>
    /\ calls = <<>>
    /\ buffer = text
    /\ text_size = size
    /\ context = NoContext
    /\ i_context = NoContext
    /\ sink = <<>>
    /\ pc = "add"

\* A scenario is the rules to install and the arguments text and text_size
\* of find_and_replace; text is the buffer it points into, the empty buffer
\* standing for the null pointer.
StartBuffer(rules, text, size) == StartReplacer(rules, text, size) /\ CliIdle

\* The scenario of the string form: the buffer is the text with the zero
\* code unit that ends it, text_size counts the code units before it.
Start(rules, text) == StartBuffer(rules, Append(text, 0), Len(text))

\* The state after an add_replacement call with outcome r.
Installed(rule, r) ==
    /\ finder' = r.finder
    /\ i_finder' = r.i_finder
    /\ added' = added \o r.log
    /\ calls' = Append(calls, [rule |-> rule, thrown |-> r.thrown])

\* One add_replacement call.
AddReplacement ==
    /\ pc = "add"
    /\ pending # <<>>
    /\ Installed(Head(pending),
           add_replacement(finder, i_finder, Head(pending).text_to_find,
                           Head(pending).replacement_text, Head(pending).mode,
                           Head(pending).match_whole_word))
    /\ pending' = Tail(pending)
    /\ UNCHANGED <<buffer, text_size, context, i_context, sink, pc>>
    /\ UNCHANGED cli_vars

\* The context find_and_replace starts both searches from.
FirstContext ==
    [NoContext EXCEPT !.full_text_begin = 0, !.full_text_end = text_size,
                      !.current = 0]

\* Mutant of FindAndReplaceBegin: text_size == 0 does not end the call.
FindAndReplaceBegin_unchecked ==
    /\ pc = "add"
    /\ pending = <<>>
    /\ IF buffer = <<>>
       THEN /\ pc' = "done"
            /\ UNCHANGED <<context, i_context>>
       ELSE /\ context' = find_token(finder, "default", FirstContext, buffer)
            /\ i_context' = find_token(i_finder, "ignore_case", FirstContext, buffer)
            /\ pc' = "loop"
    /\ UNCHANGED <<finder, i_finder, pending, added, calls, buffer, text_size, sink>>
    /\ UNCHANGED cli_vars

\* find_and_replace(text, text_size, sink) up to the head of its for loop:
\* the null / empty check, the two contexts and the two priming searches.
\* A null text is the empty buffer.
FindAndReplaceBegin ==
    /\ pc = "add"
    /\ pending = <<>>
    /\ IF buffer = <<>> \/ text_size = 0
       THEN /\ pc' = "done"
            /\ UNCHANGED <<context, i_context>>
       ELSE /\ context' = find_token(finder, "default", FirstContext, buffer)
            /\ i_context' = find_token(i_finder, "ignore_case", FirstContext, buffer)
            /\ pc' = "loop"
    /\ UNCHANGED <<finder, i_finder, pending, added, calls, buffer, text_size, sink>>
    /\ UNCHANGED cli_vars

\* Mutant of exact_first: a tie goes to the exact set.
exact_first_or_tie(ctx, i_ctx) == ctx.token_begin <= i_ctx.token_begin

\* The comparison that sends the both-have-a-token branch to the exact set.
exact_first(ctx, i_ctx) == ctx.token_begin < i_ctx.token_begin

\* Mutant of AdvanceSecond: the second context is not searched again after
\* an overlap.
AdvanceSecond_no_search(b, db, kb, first_current, ovl) ==
    advance_current_to(b, first_current)

\* The second context b (pattern set db, comparer kb) of the
\* both-have-a-token branch, after the first context has been processed and
\* searched again (first_current is its current): advance_current_to, and
\* next_token and find_token if the two tokens overlapped.
AdvanceSecond(b, db, kb, first_current, ovl) ==
    IF ovl
    THEN find_token(db, kb, next_token(advance_current_to(b, first_current)), buffer)
    ELSE advance_current_to(b, first_current)

\* Mutant of SearchNext: the search starts again from the old cursor.
SearchNext_same_position(a, da, ka) == find_token(da, ka, a, buffer)

\* The context a (pattern set da, comparer ka) after write, next_token and
\* find_token.
SearchNext(a, da, ka) == find_token(da, ka, next_token(a), buffer)

\* One iteration of the for loop of find_and_replace.
LoopIteration ==
    /\ pc = "loop"
    /\ IF ~token_found(context) /\ ~token_found(i_context)
       THEN /\ pc' = "tail"
            /\ UNCHANGED <<context, i_context, sink>>
       ELSE
         /\ pc' = "loop"
         /\ IF token_found(context) /\ token_found(i_context)
            THEN IF exact_first(context, i_context)
                 THEN /\ sink' = write(context, finder, sink)
                      /\ context' = SearchNext(context, finder, "default")
                      /\ i_context' = AdvanceSecond(i_context, i_finder, "ignore_case",
                                                    context'.current,
                                                    overlaps(context, i_context))
                 ELSE /\ sink' = write(i_context, i_finder, sink)
                      /\ i_context' = SearchNext(i_context, i_finder, "ignore_case")
                      /\ context' = AdvanceSecond(context, finder, "default",
                                                  i_context'.current,
                                                  overlaps(context, i_context))
            ELSE IF token_found(context)
            THEN /\ sink' = write(context, finder, sink)
                 /\ context' = SearchNext(context, finder, "default")
                 /\ UNCHANGED i_context
            ELSE /\ sink' = write(i_context, i_finder, sink)
                 /\ i_context' = SearchNext(i_context, i_finder, "ignore_case")
                 /\ UNCHANGED context
    /\ UNCHANGED <<finder, i_finder, pending, added, calls, buffer, text_size>>
    /\ UNCHANGED cli_vars

\* The context find_and_replace takes the remaining text from.
last_used_context ==
    IF context.current < i_context.current THEN i_context ELSE context

\* Mutant of WriteRemaining: the remaining text is not written.
WriteRemaining_nothing ==
    /\ pc = "tail"
    /\ pc' = "done"
    /\ UNCHANGED <<finder, i_finder, pending, added, calls, buffer, text_size,
                   context, i_context, sink>>
    /\ UNCHANGED cli_vars

\* The code after the loop: the remaining text after the last token.
WriteRemaining ==
    /\ pc = "tail"
    /\ sink' = IF last_used_context.current < last_used_context.full_text_end
               THEN Append(sink, [kind |-> "text",
                                  begin |-> last_used_context.current,
                                  end |-> last_used_context.full_text_end])
               ELSE sink
    /\ pc' = "done"
    /\ UNCHANGED <<finder, i_finder, pending, added, calls, buffer, text_size,
                   context, i_context>>
    /\ UNCHANGED cli_vars

Next == AddReplacement \/ FindAndReplaceBegin \/ LoopIteration \/ WriteRemaining

\* What the sink has received, concatenated: for the string form of
\* find_and_replace, the returned string.
RECURSIVE Written(_)
Written(snk) ==
    IF snk = <<>> THEN <<>>
    ELSE (IF Head(snk).kind = "text"
          THEN Span(buffer, Head(snk).begin, Head(snk).end)
          ELSE Head(snk).text) \o Written(Tail(snk))

\* The text find_and_replace was given.
Input == IF buffer = <<>> THEN <<>> ELSE Span(buffer, 0, text_size)

(***************************************************************************)
(* Bounds and scenario helpers.                                            *)
(***************************************************************************)
\* The longest padding put around an occurrence.
MaxPad == 1

\* Every text over alphabet of at most n code units.
Texts(alphabet, n) == UNION {[1..k -> alphabet] : k \in 0..n}

Rule(text_to_find, replacement_text, mode, match_whole_word) ==
    [text_to_find |-> text_to_find, replacement_text |-> replacement_text,
     mode |-> mode, match_whole_word |-> match_whole_word]

\* key occurs in text at offset p.
Occurs(key, text, p) ==
    /\ p + Len(key) <= Len(text)
    /\ Span(text, p, p + Len(key)) = key

(***************************************************************************)
(* SpecPreserve: one preserve_case rule, and a text that holds one         *)
(* rendering of its find text between paddings, or two renderings with a   *)
(* space between them.                                                     *)
(***************************************************************************)
\* "ab cd", "abCd", "AB-CD", "ab"
PreservePatterns ==
    { <<97, 98, 32, 99, 100>>, <<97, 98, 67, 100>>, <<65, 66, 45, 67, 68>>,
      <<97, 98>> }

\* "ef gh", "eFg", "E"
PreserveReplacements == { <<101, 102, 32, 103, 104>>, <<101, 70, 103>>, <<69>> }

\* 'x', '_'
PadAlphabet == {120, 95}

InitPreserve ==
    \E F \in PreservePatterns, R \in PreserveReplacements, k \in 1..9 :
        LET r == Renderings(split_text(F))
        IN  \/ \E pre, post \in Texts(PadAlphabet, MaxPad) :
                  Start(<<Rule(F, R, "preserve_case", FALSE)>>, pre \o r[k] \o post)
            \/ \E j \in 1..9 :
                  Start(<<Rule(F, R, "preserve_case", FALSE)>>, r[k] \o <<32>> \o r[j])

SpecPreserve == InitPreserve /\ [][Next]_vars

\* The renderings of the find text and of the replacement text of the
\* first rule installed.
FindRenderings == Renderings(split_text(calls[1].rule.text_to_find))

ReplacementRenderings == Renderings(split_text(calls[1].rule.replacement_text))

PairwiseDistinct(seq) == \A i, j \in 1..Len(seq) : i # j => seq[i] # seq[j]

\* The occurrences of the keys in text: <<offset, k>>.
Occurrences(keys, text) ==
    {o \in (0..Len(text)) \X (1..Len(keys)) : Occurs(keys[o[2]], text, o[1])}

\* No two occurrences share a code unit.
Disjoint(keys, occurrences) ==
    \A o1, o2 \in occurrences :
        o1 # o2 => \/ o1[1] + Len(keys[o1[2]]) <= o2[1]
                   \/ o2[1] + Len(keys[o2[2]]) <= o1[1]

RECURSIVE Substituted(_, _, _, _, _)
\* text from offset p on, every occurrence <<q, k>> replaced by
\* replacements[k].
Substituted(text, keys, replacements, occurrences, p) ==
    IF p >= Len(text) THEN <<>>
    ELSE IF \E k \in 1..Len(keys) : <<p, k>> \in occurrences
    THEN LET k == CHOOSE k \in 1..Len(keys) : <<p, k>> \in occurrences
         IN  replacements[k]
             \o Substituted(text, keys, replacements, occurrences, p + Len(keys[k]))
    ELSE <<text[p + 1]>> \o Substituted(text, keys, replacements, occurrences, p + 1)

\* C1: with one preserve_case rule whose nine renderings are pairwise
\* distinct, every occurrence of rendering k of the find text in the input is
\* replaced by rendering k of the replacement text, the input holding no
\* other match (no two occurrences share a code unit).
C1_PreserveCaseRendersEachVariant ==
    (pc = "done" /\ Len(calls) = 1 /\ calls[1].rule.mode = "preserve_case")
    => LET keys == FindRenderings
           occurrences == Occurrences(keys, Input)
       IN  (PairwiseDistinct(keys) /\ Disjoint(keys, occurrences))
           => Written(sink) = Substituted(Input, keys, ReplacementRenderings,
                                          occurrences, 0)

\* C1 witness: a scan that replaced a camel case occurrence and an upper
\* kebab occurrence of a pattern with nine distinct renderings.
C1_Witness ==
    /\ pc = "done"
    /\ Len(calls) = 1
    /\ calls[1].rule.mode = "preserve_case"
    /\ LET keys == FindRenderings
           occurrences == Occurrences(keys, Input)
       IN  /\ PairwiseDistinct(keys)
           /\ Disjoint(keys, occurrences)
           /\ \E o1, o2 \in occurrences : o1[2] = 2 /\ o2[2] = 9
    /\ Written(sink) # Input

(***************************************************************************)
(* SpecDual: up to two rules out of match_case, preserve_case and          *)
(* ignore_case rules whose keys overlap one another, and every text of at  *)
(* most MaxLen code units over 'a', 'b', 'A'; besides, the calls with a    *)
(* null text and with text_size = 0.                                       *)
(***************************************************************************)
MaxLen == 4

\* 'a', 'b', 'A'
DualAlphabet == {97, 98, 65}

\* "ab" -> "X", "b" -> "Y", "a" -> "U" (match_case); "ab" -> "ba"
\* (preserve_case).
ExactRules ==
    { Rule(<<97, 98>>, <<88>>, "match_case", FALSE),
      Rule(<<98>>, <<89>>, "match_case", FALSE),
      Rule(<<97>>, <<85>>, "match_case", FALSE),
      Rule(<<97, 98>>, <<98, 97>>, "preserve_case", FALSE) }

\* "ba" -> "", "b" -> "W", "ab" -> "V", "Aa" -> "Q" (ignore_case).
FoldRules ==
    { Rule(<<98, 97>>, <<>>, "ignore_case", FALSE),
      Rule(<<98>>, <<87>>, "ignore_case", FALSE),
      Rule(<<97, 98>>, <<86>>, "ignore_case", FALSE),
      Rule(<<65, 97>>, <<81>>, "ignore_case", FALSE) }

\* The lists of at most two rules of pool.
RuleLists(pool) ==
    {<<>>} \cup {<<r>> : r \in pool} \cup {<<r1, r2>> : r1, r2 \in pool}

InitDual ==
    \E rules \in RuleLists(ExactRules \cup FoldRules) :
        \/ \E text \in Texts(DualAlphabet, MaxLen) : Start(rules, text)
        \/ \E n \in {0, 1} : StartBuffer(rules, <<>>, n)
        \/ StartBuffer(rules, <<97, 98, 0>>, 0)

SpecDual == InitDual /\ [][Next]_vars

\* The keys and replacement texts the exact set holds, by token id + 1.
ExactAdded == SelectSeq(added, LAMBDA a : a.set = "finder")

\* The keys and replacement texts the fold set holds, by token id + 1.
FoldAdded == SelectSeq(added, LAMBDA a : a.set = "i_finder")

\* Two texts that are equal up to the case of ASCII letters.
FoldEqual(s, t) ==
    /\ Len(s) = Len(t)
    /\ \A i \in 1..Len(s) : tolower(s[i]) = tolower(t[i])

\* The key a of a pattern set matches text in [b, e): code unit for code
\* unit in the exact set, up to letter case in the fold set.
Matches(a, text, b, e) ==
    /\ 0 <= b /\ b <= e /\ e <= Len(text)
    /\ IF a.set = "finder" THEN Span(text, b, e) = a.key
                           ELSE FoldEqual(Span(text, b, e), a.key)

\* The two sink calls of search_context::write for the token of ctx.
Emitted(ctx, data) ==
    << [kind |-> "text", begin |-> ctx.current, end |-> ctx.token_begin],
       [kind |-> "replacement", begin |-> ctx.token_begin, end |-> ctx.token_end,
        text |-> data.replacement_entries[ctx.token_id + 1].replacement_text] >>

\* A context without a token whose cursor is at position p, searched again.
SearchedFrom(ctx, data, kind, p) ==
    find_token(data, kind,
               [ctx EXCEPT !.current = p, !.token_begin = nullptr,
                           !.token_end = nullptr, !.token_id = c_invalid_token_id],
               buffer)

\* Both contexts hold a token at the head of the loop.
BothHold == pc = "loop" /\ token_found(context) /\ token_found(i_context)

\* C2: when both sets hold a token and the tokens begin at different
\* positions, the iteration writes the one that begins first (the text
\* before it and its replacement), from whichever set it comes.  If the
\* other token overlaps it, the other token is dropped and the other set is
\* searched again from the end of the written token, so that its next token
\* does not begin before that end; if it does not overlap, it is kept.
C2_Step ==
    (BothHold /\ context.token_begin # i_context.token_begin)
    => IF context.token_begin < i_context.token_begin
       THEN /\ sink' = sink \o Emitted(context, finder)
            /\ IF i_context.token_begin < context.token_end
               THEN /\ i_context' = SearchedFrom(i_context, i_finder, "ignore_case",
                                                 context.token_end)
                    /\ token_found(i_context')
                           => i_context'.token_begin >= context.token_end
               ELSE i_context' = [i_context EXCEPT !.current = context.token_end]
       ELSE /\ sink' = sink \o Emitted(i_context, i_finder)
            /\ IF context.token_begin < i_context.token_end
               THEN /\ context' = SearchedFrom(context, finder, "default",
                                               i_context.token_end)
                    /\ token_found(context')
                           => context'.token_begin >= i_context.token_end
               ELSE context' = [context EXCEPT !.current = i_context.token_end]

C2_EarlierTokenIsReplaced == [][C2_Step]_vars

\* C2 witness: the rules "ab" -> "X" (match_case) and "b" -> "W"
\* (ignore_case) on "abb": the exact token [0, 2) was written, the fold token
\* [1, 2) it overlaps was dropped, and the fold set, searched again from 2,
\* holds [2, 3).
C2_Witness ==
    /\ pc = "loop"
    /\ Input = <<97, 98, 98>>
    /\ sink = << [kind |-> "text", begin |-> 0, end |-> 0],
                 [kind |-> "replacement", begin |-> 0, end |-> 2, text |-> <<88>>] >>
    /\ i_context.current = 2
    /\ i_context.token_begin = 2
    /\ i_context.token_end = 3
    /\ i_finder.replacement_entries[i_context.token_id + 1].replacement_text = <<87>>

Least(S) == CHOOSE n \in S : \A m \in S : n <= m

Greatest(S) == CHOOSE n \in S : \A m \in S : m <= n

\* The positions from p on at which a key of the exact set equals the input.
ExactPositions(p) ==
    {q \in p..Len(Input) :
        \E i \in 1..Len(ExactAdded) : Occurs(ExactAdded[i].key, Input, q)}

\* The lengths of the keys of the exact set that equal the input at p.
ExactLengths(p) ==
    {Len(ExactAdded[i].key) : i \in {j \in 1..Len(ExactAdded) :
                                        Occurs(ExactAdded[j].key, Input, p)}}

\* C4: the token the exact set holds (its rules not being whole word rules)
\* begins at the least position p at or after the cursor at which an
\* installed key equals the input, ends after the longest installed key that
\* equals the input at p, and carries the id of that key; the set holds no
\* token exactly when there is no such position.
C4_ExactSetLeftmostLongest ==
    pc = "loop"
    => IF ExactPositions(context.current) = {}
       THEN ~token_found(context)
       ELSE /\ token_found(context)
            /\ context.token_begin = Least(ExactPositions(context.current))
            /\ context.token_end =
                   context.token_begin + Greatest(ExactLengths(context.token_begin))
            /\ ExactAdded[context.token_id + 1].key =
                   Span(Input, context.token_begin, context.token_end)

\* C4 witness: the keys "a" and "ab" on "bab": the token is "ab" at [1, 3).
C4_Witness ==
    /\ pc = "loop"
    /\ Input = <<98, 97, 98>>
    /\ {ExactAdded[i].key : i \in 1..Len(ExactAdded)} = {<<97>>, <<97, 98>>}
    /\ context.current = 0
    /\ context.token_begin = 1
    /\ context.token_end = 3

\* The sink calls that wrote a replacement.
Replacements(snk) == {snk[i] : i \in {j \in 1..Len(snk) : snk[j].kind = "replacement"}}

RECURSIVE Rewritten(_, _, _)
\* text from offset p on, each token of hits replaced by its text.
Rewritten(text, hits, p) ==
    IF p >= Len(text) THEN <<>>
    ELSE IF \E h \in hits : h.begin = p
    THEN LET h == CHOOSE h \in hits : h.begin = p
         IN  h.text \o Rewritten(text, hits, h.end)
    ELSE <<text[p + 1]>> \o Rewritten(text, hits, p + 1)

\* C5: the intervals of the input the sink calls stand for (the text before
\* a token, the token, the remaining text) follow one another without gap
\* or overlap from the begin of the input, each token is a non-empty match
\* of an installed key written with that key's replacement text, and at the
\* end of the scan they reach the end of the input and the written text is
\* the input with each token replaced.
C5_SinkPartitionsInput ==
    /\ \A i \in 1..Len(sink) :
          /\ sink[i].begin = IF i = 1 THEN 0 ELSE sink[i - 1].end
          /\ sink[i].begin <= sink[i].end
          /\ sink[i].end <= text_size
          /\ sink[i].kind = "replacement"
                 => /\ sink[i].begin < sink[i].end
                    /\ \E j \in 1..Len(added) :
                           /\ Matches(added[j], Input, sink[i].begin, sink[i].end)
                           /\ added[j].replacement_text = sink[i].text
    /\ pc = "done"
           => /\ (buffer # <<>> /\ text_size > 0)
                     => (sink # <<>> /\ sink[Len(sink)].end = text_size)
              /\ Written(sink) = Rewritten(Input, Replacements(sink), 0)

\* C5 witness: a scan that wrote a token of the exact set, later a token of
\* the fold set, and a non-empty remaining text.
C5_Witness ==
    /\ pc = "done"
    /\ \E i, j \in 1..Len(sink) :
          /\ i < j
          /\ sink[i].kind = "replacement"
          /\ sink[j].kind = "replacement"
          /\ \E a \in 1..Len(ExactAdded) :
                 /\ Matches(ExactAdded[a], Input, sink[i].begin, sink[i].end)
                 /\ ExactAdded[a].replacement_text = sink[i].text
          /\ \E a \in 1..Len(FoldAdded) :
                 /\ Matches(FoldAdded[a], Input, sink[j].begin, sink[j].end)
                 /\ FoldAdded[a].replacement_text = sink[j].text
    /\ sink[Len(sink)].kind = "text"
    /\ sink[Len(sink)].begin < sink[Len(sink)].end

\* C6 as stated: with ignore_case rules only, their patterns pairwise
\* different up to letter case, an input that is a pattern up to letter case
\* is rewritten to the replacement text of that pattern's rule.
C6_IgnoreCaseAnyRecasing ==
    (/\ pc = "done"
     /\ \A i \in 1..Len(calls) :
            /\ calls[i].rule.mode = "ignore_case"
            /\ ~calls[i].rule.match_whole_word
            /\ \A j \in 1..Len(calls) :
                   i # j => ~FoldEqual(calls[i].rule.text_to_find,
                                       calls[j].rule.text_to_find))
    => \A i \in 1..Len(calls) :
           FoldEqual(Input, calls[i].rule.text_to_find)
               => Written(sink) = calls[i].rule.replacement_text

\* C7: a scan with one match_case rule writes the input with the
\* occurrences that equal the pattern code unit for code unit replaced by
\* the replacement text, every other code unit as it is.
C7_MatchCaseExactOccurrencesOnly ==
    (/\ pc = "done"
     /\ Len(calls) = 1
     /\ calls[1].rule.mode = "match_case"
     /\ ~calls[1].rule.match_whole_word)
    => Written(sink) =
           Substituted(Input, <<calls[1].rule.text_to_find>>,
                       <<calls[1].rule.replacement_text>>,
                       Occurrences(<<calls[1].rule.text_to_find>>, Input), 0)

\* C7 witness: a scan with one match_case rule of an input that holds the
\* pattern and the pattern in another letter case.
C7_Witness ==
    /\ pc = "done"
    /\ Len(calls) = 1
    /\ calls[1].rule.mode = "match_case"
    /\ \E p, q \in 0..Len(Input) :
          /\ Occurs(calls[1].rule.text_to_find, Input, p)
          /\ q + Len(calls[1].rule.text_to_find) <= Len(Input)
          /\ ~Occurs(calls[1].rule.text_to_find, Input, q)
          /\ FoldEqual(Span(Input, q, q + Len(calls[1].rule.text_to_find)),
                       calls[1].rule.text_to_find)
    /\ Written(sink) # Input

\* No installed key matches the input anywhere.
NoRuleMatches ==
    \A j \in 1..Len(added), b \in 0..Len(Input) :
        ~Matches(added[j], Input, b, b + Len(added[j].key))

\* C9: a scan of an input in which no installed rule matches, in particular
\* a scan with no rule installed, writes the input.
C9_NoMatchIsIdentity ==
    (pc = "done" /\ NoRuleMatches) => Written(sink) = Input

\* C9 witness: a scan with rules installed of a non-empty input none of them
\* matches, written in one sink call.
C9_Witness ==
    /\ pc = "done"
    /\ added # <<>>
    /\ Len(Input) >= 2
    /\ NoRuleMatches
    /\ sink = << [kind |-> "text", begin |-> 0, end |-> text_size] >>

\* C10: find_and_replace on a null text or with text_size = 0 returns
\* without a sink call and without a search, and the string form returns the
\* empty text.
C10_EmptyInputNoSinkCall ==
    (buffer = <<>> \/ text_size = 0)
    => /\ sink = <<>>
       /\ pc \in {"add", "done"}
       /\ pc = "done" => Written(sink) = <<>>

\* C10 witness: the call with text_size = 0 on a buffer that holds an
\* installed key has returned.
C10_Witness ==
    /\ pc = "done"
    /\ text_size = 0
    /\ buffer # <<>>
    /\ \E j \in 1..Len(added) : Occurs(added[j].key, buffer, 0)

(***************************************************************************)
(* SpecWord: up to two whole word rules, and every text of at most MaxLen  *)
(* code units over 'a', 'b', '_'.                                          *)
(***************************************************************************)
\* 'a', 'b', '_'
WordAlphabet == {97, 98, 95}

\* "ab" -> "X", "a" -> "U", "a_" -> "Y" (match_case); "b" -> "W"
\* (ignore_case); "a b" -> "b a" (preserve_case); all of them whole word.
WordRules ==
    { Rule(<<97, 98>>, <<88>>, "match_case", TRUE),
      Rule(<<97>>, <<85>>, "match_case", TRUE),
      Rule(<<97, 95>>, <<89>>, "match_case", TRUE),
      Rule(<<98>>, <<87>>, "ignore_case", TRUE),
      Rule(<<97, 32, 98>>, <<98, 32, 97>>, "preserve_case", TRUE) }

InitWord ==
    \E rules \in RuleLists(WordRules), text \in Texts(WordAlphabet, MaxLen) :
        Start(rules, text)

SpecWord == InitWord /\ [][Next]_vars

\* [b, e) of text has no ASCII letter or digit right before it and none
\* right after it.
AtWordBoundaries(text, b, e) ==
    /\ b = 0 \/ ~isalnum(text[b])
    /\ e = Len(text) \/ ~isalnum(text[e + 1])

\* The occurrences <<p, 1>> of the key a in text that are at word
\* boundaries.
WholeWordOccurrences(a, text) ==
    {o \in (0..Len(text)) \X {1} :
        /\ Matches(a, text, o[1], o[1] + Len(a.key))
        /\ AtWordBoundaries(text, o[1], o[1] + Len(a.key))}

\* C8: with whole word rules, every token written is at word boundaries
\* (begin of the input or a code unit that is no ASCII letter or digit
\* before it, end of the input or such a code unit after it), and a scan
\* with one whole word rule whose key is made of letters and digits replaces
\* exactly the occurrences of the key that are at word boundaries.
C8_WholeWordGate ==
    (\A j \in 1..Len(added) : added[j].match_whole_word)
    => /\ \A h \in Replacements(sink) : AtWordBoundaries(Input, h.begin, h.end)
       /\ (/\ pc = "done"
           /\ Len(added) = 1
           /\ \A i \in 1..Len(added[1].key) : isalnum(added[1].key[i]))
          => Written(sink) =
                 Substituted(Input, <<added[1].key>>, <<added[1].replacement_text>>,
                             WholeWordOccurrences(added[1], Input), 0)

\* C8 witness: a scan with the whole word rule "a" -> "U" of "aa_a": the
\* occurrences at 0 and 1 are not at word boundaries, the one at 3 is.
C8_Witness ==
    /\ pc = "done"
    /\ Len(added) = 1
    /\ added[1].match_whole_word
    /\ added[1].key = <<97>>
    /\ Input = <<97, 97, 95, 97>>
    /\ Written(sink) = <<97, 97, 95, 85>>

(***************************************************************************)
(* SpecInstall: up to two add_replacement calls, or three ignore_case      *)
(* calls, out of calls the replacer rejects, calls that repeat a key and   *)
(* calls that install one, followed by a scan.                             *)
(***************************************************************************)
\* A null text_to_find, an empty text_to_find, a null replacement_text, a
\* case_mode that is none of the three, and a preserve_case text_to_find
\* "_-" without a word.
RejectedRules ==
    { Rule(NullText, <<88>>, "match_case", FALSE),
      Rule(<<>>, <<88>>, "preserve_case", FALSE),
      Rule(<<97, 98>>, NullText, "ignore_case", FALSE),
      Rule(<<97, 98>>, NullText, "match_case", FALSE),
      Rule(<<97, 98>>, <<88>>, "other", FALSE),
      Rule(<<95, 45>>, <<88>>, "preserve_case", FALSE) }

\* "ab" -> "X" and "ab" -> "Y" (match_case); "ab" -> "V", "AB" -> "W" and
\* "Ac" -> "Q" (ignore_case); "ab" -> "cd" (preserve_case).
InstallRules ==
    { Rule(<<97, 98>>, <<88>>, "match_case", FALSE),
      Rule(<<97, 98>>, <<89>>, "match_case", FALSE),
      Rule(<<97, 98>>, <<86>>, "ignore_case", FALSE),
      Rule(<<65, 66>>, <<87>>, "ignore_case", FALSE),
      Rule(<<65, 99>>, <<81>>, "ignore_case", FALSE),
      Rule(<<97, 98>>, <<99, 100>>, "preserve_case", FALSE) }

\* "ab", "AB Ab", "xac_ab"
InstallTexts ==
    { <<97, 98>>, <<65, 66, 32, 65, 98>>, <<120, 97, 99, 95, 97, 98>> }

InitInstall ==
    \E text \in InstallTexts :
        \/ \E rules \in RuleLists(RejectedRules \cup InstallRules) : Start(rules, text)
        \/ \E r1, r2, r3 \in {r \in InstallRules : r.mode = "ignore_case"} :
               Start(<<r1, r2, r3>>, text)

SpecInstall == InitInstall /\ [][Next]_vars

\* Every code unit of text is a space, a hyphen or an underscore.
OnlyDelimiters(text) == \A i \in 1..Len(text) : text[i] \in {32, 45, 95}

\* The calls add_replacement has to reject.
Rejected(rule) ==
    \/ rule.text_to_find = NullText
    \/ rule.text_to_find = <<>>
    \/ rule.replacement_text = NullText
    \/ rule.mode \notin {"preserve_case", "ignore_case", "match_case"}
    \/ rule.mode = "preserve_case" /\ OnlyDelimiters(rule.text_to_find)

\* C11: an add_replacement call with a null or empty text_to_find, a null
\* replacement_text, an unrecognized case_mode or, under preserve_case, a
\* text_to_find without a word throws, and leaves both pattern sets (token
\* finder and replacement_entries) as they were.
C11_RejectedCallChangesNothing ==
    [][(pc = "add" /\ pending # <<>> /\ Rejected(Head(pending)))
       => /\ calls' = Append(calls, [rule |-> Head(pending), thrown |-> TRUE])
          /\ finder' = finder
          /\ i_finder' = i_finder]_vars

\* C11 witness: after a call that installed keys, a preserve_case call whose
\* text_to_find has no word has thrown, and the keys are still installed.
C11_Witness ==
    /\ Len(calls) = 2
    /\ ~calls[1].thrown
    /\ calls[2].thrown
    /\ calls[2].rule.mode = "preserve_case"
    /\ calls[2].rule.text_to_find = <<95, 45>>
    /\ Len(added) >= 1
    /\ Len(finder.replacement_entries) + Len(i_finder.replacement_entries) = Len(added)

\* The key of rule is in the pattern set its case_mode installs it in: in
\* the exact set for match_case, up to letter case in the fold set for
\* ignore_case.
KeyPresent(rule) ==
    \/ /\ rule.mode = "match_case"
       /\ \E i \in 1..Len(ExactAdded) : ExactAdded[i].key = rule.text_to_find
    \/ /\ rule.mode = "ignore_case"
       /\ \E i \in 1..Len(FoldAdded) : FoldEqual(FoldAdded[i].key, rule.text_to_find)

\* C12 as stated: a match_case or ignore_case call whose key is already in
\* its pattern set throws, and a preserve_case call the replacer does not
\* reject returns normally whatever keys are installed.
C12_DuplicateKeyRaises ==
    [][(pc = "add" /\ pending # <<>> /\ ~Rejected(Head(pending)))
       => /\ KeyPresent(Head(pending)) => calls'[Len(calls')].thrown
          /\ Head(pending).mode = "preserve_case" => ~calls'[Len(calls')].thrown]_vars

(***************************************************************************)
(* SpecIdentity: one preserve_case rule whose replacement text is its find *)
(* text, and a text that holds renderings of the find text between         *)
(* paddings, or any text of at most MaxLen code units over 'a', 'b', 'A'.  *)
(***************************************************************************)
InitIdentity ==
    \E P \in PreservePatterns :
        \/ \E k \in 1..9, pre, post \in Texts(PadAlphabet, MaxPad) :
               Start(<<Rule(P, P, "preserve_case", FALSE)>>,
                     pre \o Renderings(split_text(P))[k] \o post)
        \/ \E k, j \in 1..9 :
               Start(<<Rule(P, P, "preserve_case", FALSE)>>,
                     Renderings(split_text(P))[k] \o <<32>>
                         \o Renderings(split_text(P))[j])
        \/ \E text \in Texts(DualAlphabet, MaxLen) :
               Start(<<Rule(P, P, "preserve_case", FALSE)>>, text)

SpecIdentity == InitIdentity /\ [][Next]_vars

\* C13: a replacer that holds only a preserve_case rule whose replacement
\* text is its find text writes every input as it is.
C13_SelfReplacementIsIdentity ==
    (/\ pc = "done"
     /\ Len(calls) = 1
     /\ calls[1].rule.mode = "preserve_case"
     /\ calls[1].rule.replacement_text = calls[1].rule.text_to_find)
    => Written(sink) = Input

\* C13 witness: a scan that replaced two different renderings of the
\* pattern, each by itself.
C13_Witness ==
    /\ pc = "done"
    /\ Len(calls) = 1
    /\ ~calls[1].thrown
    /\ calls[1].rule.replacement_text = calls[1].rule.text_to_find
    /\ \E g, h \in Replacements(sink) :
          /\ g.text # h.text
          /\ g.text = Span(Input, g.begin, g.end)
          /\ h.text = Span(Input, h.begin, h.end)
    /\ Written(sink) = Input

(***************************************************************************)
(* The replacer as a function: the pattern sets a list of add_replacement  *)
(* calls builds, and the text the string form of find_and_replace returns  *)
(* for the scanned buffer.                                                 *)
(***************************************************************************)
RECURSIVE install_all(_, _, _)
\* The calls for rules after a call with outcome r.
install_rest(r, rules) == install_all(r.finder, r.i_finder, rules)

\* The pattern sets after add_replacement calls for rules, in their order,
\* on the pattern sets fnd and i_fnd; a call that throws is caught.
install_all(fnd, i_fnd, rules) ==
    IF rules = <<>> THEN [finder |-> fnd, i_finder |-> i_fnd]
    ELSE install_rest(add_replacement(fnd, i_fnd, Head(rules).text_to_find,
                                      Head(rules).replacement_text, Head(rules).mode,
                                      Head(rules).match_whole_word),
                      Tail(rules))

\* The code after the loop of find_and_replace, last being last_used_context.
scan_remaining(last, snk) ==
    IF last.current < last.full_text_end
    THEN Append(snk, [kind |-> "text", begin |-> last.current,
                      end |-> last.full_text_end])
    ELSE snk

RECURSIVE scan_loop(_, _, _, _, _)
\* The for loop of find_and_replace and the code after it: the sink calls
\* made from the contexts ctx and i_ctx on, after the calls snk.
scan_loop(fnd, i_fnd, ctx, i_ctx, snk) ==
    IF ~token_found(ctx) /\ ~token_found(i_ctx)
    THEN scan_remaining(IF ctx.current < i_ctx.current THEN i_ctx ELSE ctx, snk)
    ELSE IF token_found(ctx) /\ token_found(i_ctx)
    THEN IF exact_first(ctx, i_ctx)
         THEN scan_loop(fnd, i_fnd, SearchNext(ctx, fnd, "default"),
                        AdvanceSecond(i_ctx, i_fnd, "ignore_case",
                                      next_token(ctx).current, overlaps(ctx, i_ctx)),
                        write(ctx, fnd, snk))
         ELSE scan_loop(fnd, i_fnd,
                        AdvanceSecond(ctx, fnd, "default",
                                      next_token(i_ctx).current, overlaps(ctx, i_ctx)),
                        SearchNext(i_ctx, i_fnd, "ignore_case"),
                        write(i_ctx, i_fnd, snk))
    ELSE IF token_found(ctx)
    THEN scan_loop(fnd, i_fnd, SearchNext(ctx, fnd, "default"), i_ctx,
                   write(ctx, fnd, snk))
    ELSE scan_loop(fnd, i_fnd, ctx, SearchNext(i_ctx, i_fnd, "ignore_case"),
                   write(i_ctx, i_fnd, snk))

\* The text find_and_replace returns for the scanned buffer with the pattern
\* sets of replacer.
find_and_replace(replacer) ==
    IF buffer = <<>> \/ text_size = 0 THEN <<>>
    ELSE Written(scan_loop(replacer.finder, replacer.i_finder,
                           find_token(replacer.finder, "default", FirstContext, buffer),
                           find_token(replacer.i_finder, "ignore_case", FirstContext,
                                      buffer),
                           <<>>))

\* The rules of the calls that returned normally, in call order.
AcceptedRules ==
    LET accepted == SelectSeq(calls, LAMBDA c : ~c.thrown)
    IN  [i \in 1..Len(accepted) |-> accepted[i].rule]

\* The lists that hold the elements of seq in another or the same order.
Reorderings(seq) ==
    {[i \in 1..Len(seq) |-> seq[p[i]]] :
        p \in {q \in [1..Len(seq) -> 1..Len(seq)] :
                  \A i, j \in 1..Len(seq) : q[i] = q[j] => i = j}}

\* C14 as stated: a replacer built from the accepted rules in any other
\* order returns for the scanned input the text this replacer has written.
C14_InstallOrderIsIrrelevant ==
    pc = "done"
    => \A rules \in Reorderings(AcceptedRules) :
           find_and_replace(install_all(EmptyData, EmptyData, rules)) = Written(sink)

(***************************************************************************)
(* SpecZero: at most two rules, and a text of at most MaxLen code units    *)
(* that may hold the zero code unit.                                       *)
(***************************************************************************)
\* 'a', 'b', and the zero code unit.
ZeroAlphabet == {97, 98} \cup {0}

\* "ab" -> "X", "a" -> "U" (match_case), "b" -> "W" (ignore_case).
ZeroRules ==
    { Rule(<<97, 98>>, <<88>>, "match_case", FALSE),
      Rule(<<97>>, <<85>>, "match_case", FALSE),
      Rule(<<98>>, <<87>>, "ignore_case", FALSE) }

InitZero ==
    \E rules \in RuleLists(ZeroRules) :
        \E text \in Texts(ZeroAlphabet, MaxLen) : Start(rules, text)

SpecZero == InitZero /\ [][Next]_vars

\* The input holds the zero code unit before offset p.
AfterZero(p) == \E z \in 1..p : Input[z] = 0

\* C15: at the end of a scan, every match of an installed key that lies
\* after a zero code unit of the input is replaced, or shares a code unit
\* with a token that is.
C15_OccurrenceAfterZeroIsReplaced ==
    pc = "done"
    => \A i \in 1..Len(added) :
           \A p \in 0..Len(Input) :
               (/\ AfterZero(p)
                /\ Matches(added[i], Input, p, p + Len(added[i].key)))
               => \E h \in Replacements(sink) :
                      h.begin < p + Len(added[i].key) /\ p < h.end

(***************************************************************************)
(* SpecSplit: one preserve_case rule whose find text is any text of at     *)
(* most MaxLen code units over letters, a digit and the delimiters, the    *)
(* scanned text being the find text; and the two patterns with numbers of  *)
(* the repository's tests.                                                 *)
(***************************************************************************)
\* 'a', 'B', '3', ' ', '-', '_'
SplitAlphabet == {97, 66, 51, 32, 45, 95}

\* "x y"
SplitReplacement == <<120, 32, 121>>

\* "one two 3 four"
OneTwo3FourSpaced ==
    <<111, 110, 101, 32, 116, 119, 111, 32, 51, 32, 102, 111, 117, 114>>

\* "oneTwo3Four"
OneTwo3FourCamel == <<111, 110, 101, 84, 119, 111, 51, 70, 111, 117, 114>>

\* "five 6 seven"
Five6Seven == <<102, 105, 118, 101, 32, 54, 32, 115, 101, 118, 101, 110>>

\* "text one_two_3_four"
TextOneTwo_3Four ==
    <<116, 101, 120, 116, 32, 111, 110, 101, 95, 116, 119, 111, 95, 51, 95,
      102, 111, 117, 114>>

\* "text one_two3_four"
TextOneTwo3Four ==
    <<116, 101, 120, 116, 32, 111, 110, 101, 95, 116, 119, 111, 51, 95,
      102, 111, 117, 114>>

\* "text five_6_seven"
TextFive6Seven ==
    <<116, 101, 120, 116, 32, 102, 105, 118, 101, 95, 54, 95, 115, 101, 118,
      101, 110>>

InitSplit ==
    \/ \E find \in Texts(SplitAlphabet, MaxLen) :
           Start(<<Rule(find, SplitReplacement, "preserve_case", FALSE)>>, find)
    \/ Start(<<Rule(OneTwo3FourSpaced, Five6Seven, "preserve_case", FALSE)>>,
             TextOneTwo_3Four)
    \/ Start(<<Rule(OneTwo3FourCamel, Five6Seven, "preserve_case", FALSE)>>,
             TextOneTwo3Four)

SpecSplit == InitSplit /\ [][Next]_vars

\* Space, hyphen or underscore.
IsDelimiter(c) == c = 32 \/ c = 45 \/ c = 95

\* A word begins at index p of text: no delimiter, and the first code unit,
\* or after a delimiter, or an uppercase letter after a lowercase one.
WordBegins(text, p) ==
    /\ ~IsDelimiter(text[p])
    /\ \/ p = 1
       \/ IsDelimiter(text[p - 1])
       \/ islower(text[p - 1]) /\ isupper(text[p])

\* The word that begins at index p reaches to the code unit before the next
\* delimiter or word begin, or to the end of the text.
WordEnd(text, p) ==
    Least({q \in p..Len(text) :
              \/ q = Len(text)
              \/ IsDelimiter(text[q + 1])
              \/ WordBegins(text, q + 1)})

\* The words of text in the order they begin.
WordsOf(text) ==
    LET begins == {p \in 1..Len(text) : WordBegins(text, p)}
    IN  [k \in 1..Cardinality(begins) |->
            LET p == CHOOSE b \in begins : Cardinality({q \in begins : q < b}) = k - 1
            IN  SubSeq(text, p, WordEnd(text, p))]

\* C16: after an add_replacement call for a preserve_case rule, split_text
\* of its find text is the list of its words: the delimiters are dropped,
\* a word begins after a delimiter and at an uppercase letter that follows
\* a lowercase one and nowhere else (so not at a digit inside a run), no
\* word is empty; and the first key installed is these words joined by
\* spaces.
C16_SplitAtDelimitersAndCamelBoundaries ==
    (Len(calls) = 1 /\ calls[1].rule.mode = "preserve_case")
    => /\ split_text(calls[1].rule.text_to_find) = WordsOf(calls[1].rule.text_to_find)
       /\ \A k \in 1..Len(split_text(calls[1].rule.text_to_find)) :
              split_text(calls[1].rule.text_to_find)[k] # <<>>
       /\ ~calls[1].thrown
          => added[1].key = to_normal_text(WordsOf(calls[1].rule.text_to_find))

\* C16 witness: the rule "one two 3 four" -> "five 6 seven" is installed,
\* its find text splits into [one, two, 3, four], and the scan of
\* "text one_two_3_four" has written "text five_6_seven".
C16_Witness ==
    /\ pc = "done"
    /\ Len(calls) = 1
    /\ calls[1].rule.text_to_find = OneTwo3FourSpaced
    /\ split_text(OneTwo3FourSpaced)
           = << <<111, 110, 101>>, <<116, 119, 111>>, <<51>>,
                <<102, 111, 117, 114>> >>
    /\ Written(sink) = TextFive6Seven

\* C17 as stated: the find text "oneTwo3Four" splits into [one, Two3, Four],
\* its lower snake rendering is "one_two3_four", and the scan of
\* "text one_two3_four" with the rule "oneTwo3Four" -> "five 6 seven" writes
\* "text five_6_seven".
C17_OneTwo3FourSplitsAfterDigit ==
    (/\ pc = "done"
     /\ Len(calls) = 1
     /\ calls[1].rule.text_to_find = OneTwo3FourCamel)
    => /\ split_text(OneTwo3FourCamel)
              = << <<111, 110, 101>>, <<84, 119, 111, 51>>, <<70, 111, 117, 114>> >>
       /\ to_lower_snake_case(split_text(OneTwo3FourCamel))
              = Span(TextOneTwo3Four, 5, Len(TextOneTwo3Four))
       /\ Written(sink) = TextFive6Seven

(***************************************************************************)
(* SpecFold: one ignore_case rule whose key is one code unit, and a text   *)
(* of one code unit.                                                       *)
(***************************************************************************)
\* 'A', 'Z', 'a', 'z', 'm', the code units next to the letters ('@', '[',
\* '`', '{'), '0', '9', '_', '-', ' ', and code units from 128 on (among them
\* two that differ by 32).
FoldKeys ==
    {65, 90, 97, 122, 109, 64, 91, 96, 123, 48, 57, 95, 45, 32,
     128, 193, 225, 255}

\* Every code unit but zero.
CodeUnits == 1..255

\* "RR"
FoldReplacement == <<82, 82>>

InitFold ==
    \E a \in FoldKeys, b \in CodeUnits :
        Start(<<Rule(<<a>>, FoldReplacement, "ignore_case", FALSE)>>, <<b>>)

SpecFold == InitFold /\ [][Next]_vars

\* a and b are equal, or the upper and the lower form of one ASCII letter.
SameLetter(a, b) ==
    \/ a = b
    \/ \E lower \in 97..122 : {a, b} = {lower, lower - 32}

\* C18: the fold predicate holds for the key code unit and the text code
\* unit, in either order, exactly when they are equal or the two forms of
\* one ASCII letter; the search of the fold set follows it (the entry of
\* the key is found for the text code unit exactly then), and the scan
\* replaces the text exactly then.
C18_FoldRelatesOnlyLetterForms ==
    (Len(calls) = 1 /\ calls[1].rule.mode = "ignore_case"
        /\ Len(calls[1].rule.text_to_find) = 1 /\ Len(Input) = 1)
    => /\ token_finder_ignore_case_comparer(calls[1].rule.text_to_find[1], Input[1])
              <=> SameLetter(calls[1].rule.text_to_find[1], Input[1])
       /\ token_finder_ignore_case_comparer(Input[1], calls[1].rule.text_to_find[1])
              <=> SameLetter(calls[1].rule.text_to_find[1], Input[1])
       /\ FirstMatchingEntry(i_finder.token_finder, "ignore_case", 0, Input[1]) # 0
              <=> SameLetter(calls[1].rule.text_to_find[1], Input[1])
       /\ pc = "done"
          => (Written(sink) = FoldReplacement
                 <=> SameLetter(calls[1].rule.text_to_find[1], Input[1]))
       /\ pc = "done"
          => (Written(sink) = Input
                 <=> ~SameLetter(calls[1].rule.text_to_find[1], Input[1]))

\* C18 witness: scans with the key 'a' have replaced the text 'A', and
\* with the key of code unit 193 have left the text of code unit 225 as it
\* is.
C18_Witness ==
    /\ pc = "done"
    /\ Len(calls) = 1
    /\ calls[1].rule.mode = "ignore_case"
    /\ \/ /\ calls[1].rule.text_to_find = <<97>>
          /\ Input = <<65>>
          /\ Written(sink) = FoldReplacement
       \/ /\ calls[1].rule.text_to_find = <<193>>
          /\ Input = <<225>>
          /\ Written(sink) = Input

(***************************************************************************)
(* SpecResume: up to two whole word match_case rules, one of them with a   *)
(* key that holds a code unit that is no letter or digit, and every text   *)
(* of at most MaxLen code units over 'a', 'b', '_'.                        *)
(***************************************************************************)
\* "a_b" -> "Y", "b" -> "W", "a" -> "U", all of them whole word.
ResumeRules ==
    { Rule(<<97, 95, 98>>, <<89>>, "match_case", TRUE),
      Rule(<<98>>, <<87>>, "match_case", TRUE),
      Rule(<<97>>, <<85>>, "match_case", TRUE) }

InitResume ==
    \E rules \in RuleLists(ResumeRules), text \in Texts(WordAlphabet, MaxLen) :
        Start(rules, text)

SpecResume == InitResume /\ [][Next]_vars

\* The key added[i] matches the input at offset p, and no longer key of
\* its pattern set does.
LongestCandidate(i, p) ==
    /\ Matches(added[i], Input, p, p + Len(added[i].key))
    /\ \A j \in 1..Len(added) :
           (/\ added[j].set = added[i].set
            /\ Len(added[j].key) > Len(added[i].key))
           => ~Matches(added[j], Input, p, p + Len(added[j].key))

\* C19 as stated: at the end of a scan with whole word rules, every longest
\* candidate that is at word boundaries is replaced or shares a code unit
\* with a token that is, also when it begins inside a candidate that was
\* not at word boundaries.
C19_SearchResumesInsideRejectedCandidate ==
    (pc = "done" /\ \A j \in 1..Len(added) : added[j].match_whole_word)
    => \A i \in 1..Len(added) :
           \A p \in 0..Len(Input) :
               (/\ LongestCandidate(i, p)
                /\ AtWordBoundaries(Input, p, p + Len(added[i].key)))
               => \E h \in Replacements(sink) :
                      h.begin < p + Len(added[i].key) /\ p < h.end

\* A word in lowercase, in uppercase, and with its first code unit in
\* uppercase and the others in lowercase.
Lower(word) == [i \in 1..Len(word) |-> tolower(word[i])]

Upper(word) == [i \in 1..Len(word) |-> toupper(word[i])]

Capitalize(word) == <<toupper(Head(word))>> \o Lower(Tail(word))

RECURSIVE Joined(_, _)
\* The words one after the other with separator between each two.
Joined(words, separator) ==
    IF words = <<>> THEN <<>>
    ELSE IF Len(words) = 1 THEN Head(words)
    ELSE Head(words) \o separator \o Joined(Tail(words), separator)

\* The nine renderings of a list of words, none of them empty, as the
\* casing analyzer is specified.
NineRenderings(words) ==
    << Joined(words, <<32>>),
       Joined([k \in 1..Len(words) |-> IF k = 1 THEN Lower(words[k])
                                                ELSE Capitalize(words[k])], <<>>),
       Joined([k \in 1..Len(words) |-> Capitalize(words[k])], <<>>),
       Joined([k \in 1..Len(words) |-> Lower(words[k])], <<>>),
       Joined([k \in 1..Len(words) |-> Upper(words[k])], <<>>),
       Joined([k \in 1..Len(words) |-> Lower(words[k])], <<95>>),
       Joined([k \in 1..Len(words) |-> Upper(words[k])], <<95>>),
       Joined([k \in 1..Len(words) |-> Lower(words[k])], <<45>>),
       Joined([k \in 1..Len(words) |-> Upper(words[k])], <<45>>) >>

\* The keys and the replacement texts of the entries a preserve_case call
\* has added are renderings k of the two word lists, for the same k.
AddedAreRenderings(find_renderings, replacement_renderings) ==
    \A j \in 1..Len(added) :
        \E k \in 1..9 : /\ added[j].key = find_renderings[k]
                        /\ added[j].replacement_text = replacement_renderings[k]

\* C20: after an add_replacement call for a preserve_case rule, the nine
\* renderings of the words of its find text and of its replacement text are
\* the words joined by a space; the first word in lowercase and the later
\* ones capitalized; all capitalized; all in lowercase, all in uppercase;
\* in lowercase and in uppercase joined by '_'; and joined by '-'; the
\* first entry added has the first rendering as key, and every entry added
\* maps a rendering of the find text to the same rendering of the
\* replacement text.
C20_NineRenderings ==
    (Len(calls) = 1 /\ calls[1].rule.mode = "preserve_case")
    => /\ Renderings(split_text(calls[1].rule.text_to_find))
              = NineRenderings(split_text(calls[1].rule.text_to_find))
       /\ Renderings(split_text(calls[1].rule.replacement_text))
              = NineRenderings(split_text(calls[1].rule.replacement_text))
       /\ ~calls[1].thrown
          => /\ added[1].key
                    = NineRenderings(split_text(calls[1].rule.text_to_find))[1]
             /\ AddedAreRenderings(
                    NineRenderings(split_text(calls[1].rule.text_to_find)),
                    NineRenderings(split_text(calls[1].rule.replacement_text)))

\* C20 witness: the call for "one two 3 four" -> "five 6 seven" has added
\* nine entries; the second key is "oneTwo3Four", the seventh maps
\* "ONE_TWO_3_FOUR" to "FIVE_6_SEVEN".
C20_Witness ==
    /\ Len(calls) = 1
    /\ calls[1].rule.text_to_find = OneTwo3FourSpaced
    /\ Len(added) = 9
    /\ added[2].key = OneTwo3FourCamel
    /\ added[7].key = <<79, 78, 69, 95, 84, 87, 79, 95, 51, 95, 70, 79, 85, 82>>
    /\ added[7].replacement_text
           = <<70, 73, 86, 69, 95, 54, 95, 83, 69, 86, 69, 78>>

\* The first rendering that is the same string as rendering k.
FirstRendering(renderings, k) ==
    Least({j \in 1..Len(renderings) : renderings[j] = renderings[k]})

\* The occurrences in text of the renderings that repeat no earlier one.
FirstOccurrences(renderings, text) ==
    {o \in Occurrences(renderings, text) : FirstRendering(renderings, o[2]) = o[2]}

\* C21: a preserve_case call whose find text has renderings that are the
\* same string returns normally; each string is installed once, in the
\* order of the nine renderings, with the replacement rendering of the
\* first rendering that gives it; and a scan replaces each occurrence of
\* a rendering by that replacement (the occurrences sharing no code unit).
C21_FirstOfEqualRenderingsIsInstalled ==
    (/\ Len(calls) = 1
     /\ calls[1].rule.mode = "preserve_case"
     /\ ~PairwiseDistinct(FindRenderings))
    => /\ ~calls[1].thrown
       /\ Len(added) = Cardinality({FindRenderings[k] : k \in 1..9})
       /\ \A k \in 1..9 :
              \E j \in 1..Len(added) :
                  /\ added[j].key = FindRenderings[k]
                  /\ added[j].replacement_text
                         = ReplacementRenderings[FirstRendering(FindRenderings, k)]
                  /\ j = Cardinality({FindRenderings[i] :
                                         i \in 1..FirstRendering(FindRenderings, k)})
       /\ (/\ pc = "done"
           /\ Disjoint(FindRenderings, FirstOccurrences(FindRenderings, Input)))
          => Written(sink) = Substituted(Input, FindRenderings, ReplacementRenderings,
                                         FirstOccurrences(FindRenderings, Input), 0)

\* C21 witness: the rule "ab" -> "ef gh" has installed three keys, and the
\* scan of "ab" has written "ef gh", the normal rendering.
C21_Witness ==
    /\ pc = "done"
    /\ Len(calls) = 1
    /\ calls[1].rule.text_to_find = <<97, 98>>
    /\ calls[1].rule.replacement_text = <<101, 102, 32, 103, 104>>
    /\ Len(added) = 3
    /\ Input = <<97, 98>>
    /\ Written(sink) = <<101, 102, 32, 103, 104>>

\* The key resolves in the exact set, as logged in log, to replacement_text.
ResolvesTo(log, key, replacement_text) ==
    \E j \in 1..Len(log) :
        /\ log[j].set = "finder"
        /\ log[j].key = key
        /\ log[j].replacement_text = replacement_text

\* Every rendering of the find text of rule resolves to the rendering of
\* its replacement text that belongs to it.
FullyInstalled(log, rule) ==
    \A k \in 1..9 :
        ResolvesTo(log, Renderings(split_text(rule.text_to_find))[k],
            Renderings(split_text(rule.replacement_text))
                [FirstRendering(Renderings(split_text(rule.text_to_find)), k)])

\* C22 as stated: a preserve_case call either returns normally, and then
\* every rendering of its find text resolves to this rule's replacement
\* rendering, or it signals an error and leaves both pattern sets as they
\* were.
C22_NoPartialInstallation ==
    [][(/\ pc = "add"
        /\ pending # <<>>
        /\ Head(pending).mode = "preserve_case")
       => IF calls'[Len(calls')].thrown
          THEN finder' = finder /\ i_finder' = i_finder
          ELSE FullyInstalled(added', Head(pending))]_vars

(***************************************************************************)
(* SpecErase: one preserve_case rule whose replacement text has no word,   *)
(* and a text that holds one rendering of its find text between paddings,  *)
(* or two renderings with a space between them.                            *)
(***************************************************************************)
\* "", "_", " -", "_- "
WordlessReplacements == { <<>>, <<95>>, <<32, 45>>, <<95, 45, 32>> }

InitErase ==
    \E F \in PreservePatterns, R \in WordlessReplacements, k \in 1..9 :
        \/ \E pre, post \in Texts(PadAlphabet, MaxPad) :
              Start(<<Rule(F, R, "preserve_case", FALSE)>>,
                    pre \o Renderings(split_text(F))[k] \o post)
        \/ \E j \in 1..9 :
              Start(<<Rule(F, R, "preserve_case", FALSE)>>,
                    Renderings(split_text(F))[k] \o <<32>>
                        \o Renderings(split_text(F))[j])

SpecErase == InitErase /\ [][Next]_vars

\* C23: a preserve_case call whose replacement text is not null and has no
\* word returns normally, every key it installs has the empty replacement,
\* and the scan writes the input without the occurrences of the renderings
\* of the find text (the occurrences sharing no code unit).
C23_WordlessReplacementErases ==
    (/\ Len(calls) = 1
     /\ calls[1].rule.mode = "preserve_case"
     /\ calls[1].rule.replacement_text # NullText
     /\ OnlyDelimiters(calls[1].rule.replacement_text)
     /\ ~OnlyDelimiters(calls[1].rule.text_to_find))
    => /\ ~calls[1].thrown
       /\ \A k \in 1..9 : ResolvesTo(added, FindRenderings[k], <<>>)
       /\ (/\ pc = "done"
           /\ Disjoint(FindRenderings, FirstOccurrences(FindRenderings, Input)))
          => Written(sink) = Substituted(Input, FindRenderings,
                                         [k \in 1..9 |-> <<>>],
                                         FirstOccurrences(FindRenderings, Input), 0)

\* C23 witness: a scan with a rule whose replacement text is made of
\* delimiters has replaced two renderings by the empty text and written
\* the space between them.
C23_Witness ==
    /\ pc = "done"
    /\ Len(calls) = 1
    /\ ~calls[1].thrown
    /\ calls[1].rule.replacement_text = <<95, 45, 32>>
    /\ Cardinality(Replacements(sink)) = 2
    /\ \A h \in Replacements(sink) : h.text = <<>>
    /\ Written(sink) = <<32>>

(***************************************************************************)
(* SpecMixed: three of the rules "one" -> "four" (preserve_case),          *)
(* "two" -> "five" (match_case), "three" -> "six" (ignore_case) and        *)
(* "e t" -> "_" (ignore_case), in any order, and a text of one to three    *)
(* words with a space between them.                                        *)
(***************************************************************************)
MixedRules ==
    { Rule(<<111, 110, 101>>, <<102, 111, 117, 114>>, "preserve_case", FALSE),
      Rule(<<116, 119, 111>>, <<102, 105, 118, 101>>, "match_case", FALSE),
      Rule(<<116, 104, 114, 101, 101>>, <<115, 105, 120>>, "ignore_case", FALSE),
      Rule(<<101, 32, 116>>, <<95>>, "ignore_case", FALSE) }

\* "one", "two", "three", "THREE", "TWO", "One"
MixedWords ==
    { <<111, 110, 101>>, <<116, 119, 111>>, <<116, 104, 114, 101, 101>>,
      <<84, 72, 82, 69, 69>>, <<84, 87, 79>>, <<79, 110, 101>> }

\* "one two THREE", "four five six"
OneTwoTHREE ==
    <<111, 110, 101, 32, 116, 119, 111, 32, 84, 72, 82, 69, 69>>

FourFiveSix ==
    <<102, 111, 117, 114, 32, 102, 105, 118, 101, 32, 115, 105, 120>>

InitMixed ==
    \E r1, r2, r3 \in MixedRules :
        /\ r1 # r2 /\ r1 # r3 /\ r2 # r3
        /\ \E w1, w2, w3 \in MixedWords :
               \/ Start(<<r1, r2, r3>>, w1)
               \/ Start(<<r1, r2, r3>>, w1 \o <<32>> \o w2)
               \/ Start(<<r1, r2, r3>>, w1 \o <<32>> \o w2 \o <<32>> \o w3)

SpecMixed == InitMixed /\ [][Next]_vars

\* The tokens a scan of the buffer with one pattern set alone replaces.
SoloHits(fnd, i_fnd) ==
    Replacements(scan_loop(fnd, i_fnd,
                           find_token(fnd, "default", FirstContext, buffer),
                           find_token(i_fnd, "ignore_case", FirstContext, buffer),
                           <<>>))

\* No token of hits shares a code unit with a token of others.
Apart(hits, others) ==
    \A h \in hits : \A g \in others : h.end <= g.begin \/ g.end <= h.begin

\* When both sets hold a token and the two do not overlap, the iteration
\* writes the one that begins first and leaves the other context with its
\* token, its cursor at the end of the written token.
C24_Step ==
    (BothHold /\ ~overlaps(context, i_context))
    => IF context.token_begin < i_context.token_begin
       THEN /\ sink' = sink \o Emitted(context, finder)
            /\ i_context' = [i_context EXCEPT !.current = context.token_end]
       ELSE /\ sink' = sink \o Emitted(i_context, i_finder)
            /\ context' = [context EXCEPT !.current = i_context.token_end]

\* When the tokens the exact set finds alone and the tokens the fold set
\* finds alone share no code unit, the scan with both sets replaces all of
\* them and nothing else, in the order of their positions.
C24_AllApartHitsReplaced ==
    (/\ pc = "done"
     /\ buffer # <<>>
     /\ text_size > 0
     /\ Apart(SoloHits(finder, EmptyData), SoloHits(EmptyData, i_finder)))
    => /\ Replacements(sink)
              = SoloHits(finder, EmptyData) \cup SoloHits(EmptyData, i_finder)
       /\ \A i, j \in 1..Len(sink) : i < j => sink[i].end <= sink[j].begin
       /\ Written(sink)
              = Rewritten(Input, SoloHits(finder, EmptyData)
                                     \cup SoloHits(EmptyData, i_finder), 0)

\* C24: tokens of the two sets that do not overlap are all replaced, the
\* earlier one first, the later one kept by its context meanwhile.
C24_NonOverlappingHitsAreKept ==
    [][C24_Step]_vars /\ []C24_AllApartHitsReplaced

\* C24 witness: with the rules "one" -> "four" (preserve_case), "two" ->
\* "five" (match_case) and "three" -> "six" (ignore_case), the scan of
\* "one two THREE" has written "four five six" with three replacements,
\* the third from the fold set.
C24_Witness ==
    /\ pc = "done"
    /\ Len(calls) = 3
    /\ \A i \in 1..3 : calls[i].rule.text_to_find # <<101, 32, 116>>
    /\ Input = OneTwoTHREE
    /\ Cardinality(Replacements(sink)) = 3
    /\ Cardinality(SoloHits(EmptyData, i_finder)) = 1
    /\ Written(sink) = FourFiveSix

(***************************************************************************)
(* SpecBeyond: at most two rules, and a buffer of at most MaxLen code      *)
(* units before its zero code unit, of which text_size names a prefix.     *)
(***************************************************************************)
InitBeyond ==
    \E rules \in RuleLists(ZeroRules), text \in Texts(DualAlphabet, MaxLen) :
        \E size \in 0..Len(text) : StartBuffer(rules, Append(text, 0), size)

SpecBeyond == InitBeyond /\ [][Next]_vars

\* C25 as stated: every token a context holds lies in [begin, end), end
\* being text + text_size, and every sink call stands for code units of
\* [begin, end), also when the buffer holds code units other than zero from
\* end on.
C25_HitsStayBeforeEnd ==
    /\ \A ctx \in {context, i_context} :
           token_found(ctx)
           => /\ 0 <= ctx.token_begin
              /\ ctx.token_begin < ctx.token_end
              /\ ctx.token_end <= text_size
    /\ \A i \in 1..Len(sink) :
           /\ 0 <= sink[i].begin
           /\ sink[i].begin <= sink[i].end
           /\ sink[i].end <= text_size

RECURSIVE PathTo(_, _)
\* The characters on the way from the root list to entry n of the tree.
PathTo(nodes, n) ==
    IF n = 0 THEN <<>>
    ELSE Append(PathTo(nodes, nodes[n].parent), nodes[n].character)

\* The entries of the tree that carry a token id.
TokenNodes(nodes) == {n \in 1..Len(nodes) : nodes[n].token_id # c_invalid_token_id}

\* data, a pattern set whose add_token calls that returned true are log, in
\* call order: as many replacement entries as entries of the tree with a
\* token id; these ids are distinct indices of replacement_entries; the
\* way to the entry with id t spells the key of the call that appended
\* replacement entry t, which holds that call's replacement text.
Consistent(data, log) ==
    /\ Len(data.replacement_entries) = Cardinality(TokenNodes(data.token_finder))
    /\ Len(data.replacement_entries) = Len(log)
    /\ \A n \in TokenNodes(data.token_finder) :
           /\ data.token_finder[n].token_id >= 0
           /\ data.token_finder[n].token_id < Len(data.replacement_entries)
           /\ \A m \in TokenNodes(data.token_finder) :
                  data.token_finder[m].token_id = data.token_finder[n].token_id
                  => m = n
           /\ PathTo(data.token_finder, n)
                  = log[data.token_finder[n].token_id + 1].key
           /\ data.replacement_entries[data.token_finder[n].token_id + 1]
                  = [replacement_text |->
                         log[data.token_finder[n].token_id + 1].replacement_text,
                     match_whole_word |->
                         log[data.token_finder[n].token_id + 1].match_whole_word]

\* C26: after any add_replacement calls, those that threw included, each
\* of the two pattern sets is consistent.
C26_RecordsMatchTokenNodes ==
    /\ Consistent(finder, ExactAdded)
    /\ Consistent(i_finder, FoldAdded)

\* C26 witness: three ignore_case calls, the last of which threw for a key
\* that is in the tree, and an exact set with more than one key.
C26_Witness ==
    /\ Len(calls) = 3
    /\ calls[3].thrown
    /\ ~calls[1].thrown
    /\ ~calls[2].thrown
    /\ Len(i_finder.replacement_entries) = 2
    /\ \E n \in TokenNodes(i_finder.token_finder) :
           PathTo(i_finder.token_finder, n) = calls[3].rule.text_to_find

(***************************************************************************)
(* SpecTermFair: whole word rules in both sets, "ab" -> "X" and "a" -> "U" *)
(* (match_case) and "b" -> "W" (ignore_case), on texts of two words with a *)
(* space between them, for a caller that runs on as long as it can (a      *)
(* sequential program takes its next step).                                *)
(***************************************************************************)
TermRules ==
    << Rule(<<97, 98>>, <<88>>, "match_case", TRUE),
       Rule(<<98>>, <<87>>, "ignore_case", TRUE),
       Rule(<<97>>, <<85>>, "match_case", TRUE) >>

TermWords == { <<97>>, <<98>>, <<97, 98>>, <<98, 97>>, <<66>> }

InitTerm ==
    \E w1, w2 \in TermWords : Start(TermRules, w1 \o <<32>> \o w2)

SpecTermFair == InitTerm /\ [][Next]_vars /\ WF_vars(Next)

\* The context the iteration writes is the one of the exact set.
ExactChosen ==
    /\ token_found(context)
    /\ ~token_found(i_context) \/ exact_first(context, i_context)

\* An iteration of the loop that writes a token moves the cursor of the
\* context it has chosen forward by at least one code unit.
C28_LoopProgress ==
    (pc = "loop" /\ pc' = "loop")
    => IF ExactChosen THEN context'.current >= context.current + 1
                      ELSE i_context'.current >= i_context.current + 1

\* A search of a pattern set from any offset of the buffer that finds a
\* token finds one that begins at or after the offset and has at least one
\* code unit: the retry after a token that is no whole word, which starts
\* at the end of that token, starts after the offset.
RetryMovesOn(data, kind) ==
    \A p \in 0..(Len(buffer) - 1) :
        LET r == find_token_implementation(data.token_finder, kind,
                                           "null_terminated", buffer, p)
        IN  r.found => (r.token_begin >= p /\ r.token_end >= r.token_begin + 1)

C28_RetryProgress ==
    (pc # "add" /\ buffer # <<>>)
    => RetryMovesOn(finder, "default") /\ RetryMovesOn(i_finder, "ignore_case")

\* C28: every call of find_and_replace comes to its end; each iteration of
\* its loop moves the chosen context's cursor forward, and each retry
\* inside find_token moves the search position forward.
C28_FindAndReplaceTerminates ==
    /\ <>(pc = "done")
    /\ [][C28_LoopProgress]_vars
    /\ []C28_RetryProgress

\* C28 witness: a finished scan with whole word rules in both sets that has
\* written a token of each set, of an input in which a key matched without
\* being a whole word.
C28_Witness ==
    /\ pc = "done"
    /\ ExactAdded # <<>>
    /\ FoldAdded # <<>>
    /\ Cardinality(Replacements(sink)) >= 2
    /\ \E h \in Replacements(sink) : Matches(ExactAdded[1], Input, h.begin, h.end)
    /\ \E h \in Replacements(sink) : Matches(FoldAdded[1], Input, h.begin, h.end)
    /\ \E i \in 1..Len(added), p \in 0..Len(Input) :
           /\ Matches(added[i], Input, p, p + Len(added[i].key))
           /\ ~AtWordBoundaries(Input, p, p + Len(added[i].key))

\* A context with a token has its cursor at or before the token, which is
\* not empty; a context without has the token id, begin and end cleared.
WellFormed(ctx) ==
    IF token_found(ctx)
    THEN /\ ctx.current <= ctx.token_begin
         /\ ctx.token_begin < ctx.token_end
    ELSE /\ ctx.token_id = c_invalid_token_id
         /\ ctx.token_begin = nullptr
         /\ ctx.token_end = nullptr

C29_AtLoopHead ==
    /\ pc \in {"loop", "tail"} => (WellFormed(context) /\ WellFormed(i_context))
    /\ \A i \in 1..Len(sink) : sink[i].kind = "text" => sink[i].begin <= sink[i].end

C29_CursorsMoveOn ==
    (pc = "loop" /\ pc' = "loop")
    => /\ context'.current >= context.current
       /\ i_context'.current >= i_context.current

\* C29: at the head of each iteration of the loop both contexts are well
\* formed, no cursor is before where it was at the head of the iteration
\* before, and no input text the sink has received has a negative length.
C29_ContextsWellFormed ==
    /\ []C29_AtLoopHead
    /\ [][C29_CursorsMoveOn]_vars

\* C29 witness: the head of an iteration after two tokens have been
\* written, one context holding a token that begins after its cursor, the
\* other holding none, its cursor after the begin of the text.
C29_Witness ==
    /\ pc = "loop"
    /\ Cardinality(Replacements(sink)) >= 2
    /\ \E a, b \in {context, i_context} :
           /\ token_found(a)
           /\ a.current < a.token_begin
           /\ ~token_found(b)
           /\ b.current > 0

(***************************************************************************)
(* loadOptionsFromFile, one line of the replacements file at a time.       *)
(***************************************************************************)
\* The replacer while the command line tool reads its options.
ReplacerIdle == StartReplacer(<<>>, <<>>, 0)

\* The most lines a replacements file has.
MaxLines == MaxLen

\* The line name=value.
NameValue(name, value) == Append(name, 61) \o value

\* The lines a replacements file is made of.  Lines the reader accepts:
\* "text-to-find=a", "replacement-text=c", match-whole-word and case-mode
\* with each value the reader knows, "pair=b-->d", "a-->c", the empty line
\* and the comment "#a-->c".
GoodLines ==
    { NameValue(KeyTextToFind, <<97>>),
      NameValue(KeyReplacementText, <<99>>),
      NameValue(KeyMatchWholeWord, ValueTrue),
      NameValue(KeyMatchWholeWord, ValueFalse),
      NameValue(KeyCaseMode, ValuePreserve),
      NameValue(KeyCaseMode, ValueIgnore),
      NameValue(KeyCaseMode, ValueMatch),
      NameValue(KeyPair, <<98>> \o Arrow \o <<100>>),
      <<97>> \o Arrow \o <<99>>,
      <<>>,
      <<35, 97>> \o Arrow \o <<99>> }

\* Lines the reader throws at: "match-whole-word=pair", "case-mode=true",
\* "pair=bd", "ac", "n=a", "text-to-find=" and "a=b-->c".
BadLines ==
    { NameValue(KeyMatchWholeWord, KeyPair),
      NameValue(KeyCaseMode, ValueTrue),
      NameValue(KeyPair, <<98, 100>>),
      <<97, 99>>,
      NameValue(<<110>>, <<97>>),
      NameValue(KeyTextToFind, <<>>),
      NameValue(<<97>>, <<98>> \o Arrow \o <<99>>) }

Lines == GoodLines \cup BadLines

\* The locals and the list after the loop body has run on a line that is
\* neither empty nor a comment: r is what the branches have left, e what
\* the check at the end of the body has (not reached after a throw).
LineDone(r, e) ==
    /\ currentOptions' = r.currentOptions
    /\ IF r.thrown
       THEN /\ textToFindSet' = r.textToFindSet
            /\ replacementTextSet' = r.replacementTextSet
            /\ replacementOptions' = replacementOptions
            /\ load_pc' = "thrown"
       ELSE /\ textToFindSet' = e.textToFindSet
            /\ replacementTextSet' = e.replacementTextSet
            /\ replacementOptions' = e.replacementOptions
            /\ load_pc' = "reading"

\* One pass of the while loop: std::getline returns a line.
ReadLine ==
    /\ load_pc = "reading"
    /\ Len(read) < MaxLines
    /\ \E line \in Lines :
        /\ read' = Append(read, line)
        /\ IF line = <<>> \/ line[1] = 35
           THEN UNCHANGED <<currentOptions, textToFindSet, replacementTextSet,
                            replacementOptions, load_pc>>
           ELSE LineDone(parse_line(currentOptions, textToFindSet,
                                    replacementTextSet, line),
                         push_back_when_set(replacementOptions,
                             parse_line(currentOptions, textToFindSet,
                                        replacementTextSet, line)))
    /\ UNCHANGED <<replacer_vars, file_vars>>

\* std::getline meets the end of the file: the function returns.
EndOfFile ==
    /\ load_pc = "reading"
    /\ load_pc' = "returned"
    /\ UNCHANGED <<read, currentOptions, textToFindSet, replacementTextSet,
                   replacementOptions>>
    /\ UNCHANGED <<replacer_vars, file_vars>>

\* The file has been opened, the locals are constructed, the caller's list
\* is empty.
InitLoad ==
    /\ ReplacerIdle
    /\ read = <<>>
    /\ currentOptions = DefaultReplacementOptions
    /\ textToFindSet = FALSE
    /\ replacementTextSet = FALSE
    /\ replacementOptions = <<>>
    /\ load_pc = "reading"
    /\ disk = <<>>
    /\ path = <<>>
    /\ options = DefaultProcessingOptions
    /\ FileLocalsIdle
    /\ file_pc = "idle"

NextLoad == ReadLine \/ EndOfFile

SpecLoad == InitLoad /\ [][NextLoad]_vars

\* The lines the reader has gone through without throwing.
Accepted == IF load_pc = "thrown" THEN SubSeq(read, 1, Len(read) - 1) ELSE read

\* line is name=value with a value that is not empty.
HasName(line, name) ==
    /\ Len(line) > Len(name) + 1
    /\ SubSeq(line, 1, Len(name) + 1) = Append(name, 61)

ValueAfter(line, name) == SubSeq(line, Len(name) + 2, Len(line))

\* line is pair=A-->B or a bare A-->B.
IsPair(line) ==
    \/ HasName(line, KeyPair)
    \/ /\ line # <<>>
       /\ line[1] # 35
       /\ \E p \in 1..(Len(line) - 2) : SubSeq(line, p, p + 2) = Arrow

\* A and B of a pair: what is before and what is after the first "-->".
PairText(line) ==
    IF HasName(line, KeyPair) THEN ValueAfter(line, KeyPair) ELSE line

ArrowAt(s) == Least({p \in 1..(Len(s) - 2) : SubSeq(s, p, p + 2) = Arrow})

SuppliesFind(line) == HasName(line, KeyTextToFind) \/ IsPair(line)

SuppliesReplacement(line) == HasName(line, KeyReplacementText) \/ IsPair(line)

FindOf(line) ==
    IF HasName(line, KeyTextToFind) THEN ValueAfter(line, KeyTextToFind)
    ELSE SubSeq(PairText(line), 1, ArrowAt(PairText(line)) - 1)

ReplacementOf(line) ==
    IF HasName(line, KeyReplacementText) THEN ValueAfter(line, KeyReplacementText)
    ELSE SubSeq(PairText(line), ArrowAt(PairText(line)) + 3, Len(PairText(line)))

CaseModeOf(line) ==
    IF ValueAfter(line, KeyCaseMode) = ValuePreserve THEN "preserve_case"
    ELSE IF ValueAfter(line, KeyCaseMode) = ValueIgnore THEN "ignore_case"
    ELSE "match_case"

\* The last of the first i lines for which S holds, S being a set of line
\* numbers; 0 if there is none.
LastIn(S, i) == IF S \cap (1..i) = {} THEN 0 ELSE Greatest(S \cap (1..i))

RECURSIVE EmittedUpTo(_, _)
\* Line i emits a rule when a text-to-find and a replacement-text have both
\* been supplied after the last line before it that has emitted one.
EmitsAfter(lines, i, before) ==
    IF /\ \E k \in (LastIn(before, i) + 1)..i : SuppliesFind(lines[k])
       /\ \E k \in (LastIn(before, i) + 1)..i : SuppliesReplacement(lines[k])
    THEN before \cup {i}
    ELSE before

\* The numbers of the lines among the first i that emit a rule.
EmittedUpTo(lines, i) ==
    IF i = 0 THEN {} ELSE EmitsAfter(lines, i, EmittedUpTo(lines, i - 1))

\* The rule line i emits: the last text-to-find and replacement-text
\* supplied, the last case-mode and match-whole-word assigned (the defaults
\* if none has been).
RuleAt(lines, i) ==
    [textToFind |->
         FindOf(lines[LastIn({k \in 1..i : SuppliesFind(lines[k])}, i)]),
     replacementText |->
         ReplacementOf(lines[LastIn({k \in 1..i : SuppliesReplacement(lines[k])}, i)]),
     caseMode |->
         IF \E k \in 1..i : HasName(lines[k], KeyCaseMode)
         THEN CaseModeOf(lines[LastIn({k \in 1..i : HasName(lines[k], KeyCaseMode)}, i)])
         ELSE "preserve_case",
     matchWholeWord |->
         /\ \E k \in 1..i : HasName(lines[k], KeyMatchWholeWord)
         /\ ValueAfter(lines[LastIn({k \in 1..i : HasName(lines[k], KeyMatchWholeWord)}, i)],
                       KeyMatchWholeWord) = ValueTrue]

\* The list holds the rules of the emitting lines, in their order.
ListIs(lines, emitting) ==
    /\ Len(replacementOptions) = Cardinality(emitting)
    /\ \A i \in emitting :
           replacementOptions[Cardinality({k \in emitting : k <= i})] = RuleAt(lines, i)

\* C27: the list of rules the replacements file reader has built holds one
\* rule for each line by which both a text-to-find and a replacement-text
\* have been supplied since the rule before (by name=value lines, by
\* pair=A-->B or by a bare A-->B), and no other; each rule carries the
\* case-mode and the match-whole-word assigned last before it.
C27_RulesOfReplacementsFile ==
    load_pc # "idle" => ListIs(Accepted, EmittedUpTo(Accepted, Len(Accepted)))

\* C27 witness: the file "case-mode=ignore", "pair=b-->d",
\* "replacement-text=c", "text-to-find=a" has been read: two rules with
\* ignore_case, the replacement-text line alone having emitted none.
C27_Witness ==
    /\ load_pc = "returned"
    /\ read = << NameValue(KeyCaseMode, ValueIgnore),
                 NameValue(KeyPair, <<98>> \o Arrow \o <<100>>),
                 NameValue(KeyReplacementText, <<99>>),
                 NameValue(KeyTextToFind, <<97>>) >>
    /\ replacementOptions =
           << [textToFind |-> <<98>>, replacementText |-> <<100>>,
               caseMode |-> "ignore_case", matchWholeWord |-> FALSE],
              [textToFind |-> <<97>>, replacementText |-> <<99>>,
               caseMode |-> "ignore_case", matchWholeWord |-> FALSE] >>

(***************************************************************************)
(* processPath and processFile on one file: the replacer is built from the *)
(* rules, the file is read and scanned, its name is scanned, and the file  *)
(* is written and renamed.                                                 *)
(***************************************************************************)
\* The longest file name (without extension).
MaxName == MaxPad + 1

\* 'a', 'b'
CliAlphabet == {97, 98}

\* "a" -> "b" (match_case), "ab" -> "a" (ignore_case), "ba" -> "ab"
\* (preserve_case).
CliRules ==
    { << Rule(<<97>>, <<98>>, "match_case", FALSE) >>,
      << Rule(<<97, 98>>, <<97>>, "ignore_case", FALSE) >>,
      << Rule(<<98, 97>>, <<97, 98>>, "preserve_case", FALSE),
         Rule(<<97>>, <<98>>, "match_case", TRUE) >> }

\* The file names.
CliNames == Texts(CliAlphabet, MaxName) \ {<<>>}

\* The file contents: "", "b", "ba", "a b".
CliContents == { <<>>, <<98>>, <<98, 97>>, <<97, 32, 98>> }

\* The directory holds the file and at most one other file, which is
\* empty.
InitFile ==
    \E rules \in CliRules, p \in CliNames, c \in CliContents,
       others \in {{}} \cup {{q} : q \in CliNames},
       dry \in BOOLEAN, allow \in BOOLEAN :
        /\ p \notin others
        /\ StartReplacer(rules, <<>>, 0)
        /\ LoadIdle
        /\ disk = [q \in {p} \cup others |-> IF q = p THEN c ELSE <<>>]
        /\ path = p
        /\ options = [dryRun |-> dry, allowRename |-> allow]
        /\ FileLocalsIdle
        /\ file_pc = "build"

\* processPath: one add_replacement call.
BuildReplacer ==
    /\ file_pc = "build"
    /\ AddReplacement

\* processFile up to the call of find_and_replace: the file is opened and
\* read into content, or it cannot be opened or read.
ReadFile ==
    /\ file_pc = "build"
    /\ pending = <<>>
    /\ \E opened \in BOOLEAN :
        IF opened
        THEN /\ content' = disk[path]
             /\ buffer' = Append(disk[path], 0)
             /\ text_size' = Len(disk[path])
             /\ file_pc' = "content"
        ELSE /\ file_pc' = IF options.dryRun THEN "returned" ELSE "thrown"
             /\ UNCHANGED <<content, buffer, text_size>>
    /\ UNCHANGED <<finder, i_finder, pending, added, calls, context, i_context,
                   sink, pc>>
    /\ UNCHANGED <<read, currentOptions, textToFindSet, replacementTextSet,
                   replacementOptions, load_pc>>
    /\ UNCHANGED <<disk, path, options, newContent, hasChanges, newPath,
                   needsRename>>

\* find_and_replace is entered, for the content and for the file name.
CallFindAndReplace ==
    /\ file_pc \in {"content", "stem"}
    /\ FindAndReplaceBegin

\* After the scan of the content: newContent is what the sink has received,
\* hasChanges is computed, and renameFileWithReplacement calls the string
\* form of find_and_replace on the file name.
CheckChanges ==
    /\ file_pc = "content"
    /\ pc = "done"
    /\ newContent' = Written(sink)
    /\ hasChanges' = (Written(sink) # content)
    /\ buffer' = Append(path, 0)
    /\ text_size' = Len(path)
    /\ context' = NoContext
    /\ i_context' = NoContext
    /\ sink' = <<>>
    /\ pc' = "add"
    /\ file_pc' = "stem"
    /\ UNCHANGED <<finder, i_finder, pending, added, calls>>
    /\ UNCHANGED <<read, currentOptions, textToFindSet, replacementTextSet,
                   replacementOptions, load_pc>>
    /\ UNCHANGED <<disk, path, options, content, newPath, needsRename>>

\* renameFileWithReplacement returns: newPath and needsRename.
CheckRename ==
    /\ file_pc = "stem"
    /\ pc = "done"
    /\ newPath' = Written(sink)
    /\ needsRename' = (Written(sink) # path /\ options.allowRename)
    /\ file_pc' = "decided"
    /\ UNCHANGED replacer_vars
    /\ UNCHANGED <<read, currentOptions, textToFindSet, replacementTextSet,
                   replacementOptions, load_pc>>
    /\ UNCHANGED <<disk, path, options, content, newContent, hasChanges>>

\* Nothing changes, or dry run: processFile returns.
ReturnUnchanged ==
    /\ file_pc = "decided"
    /\ options.dryRun \/ (~hasChanges /\ ~needsRename)
    /\ file_pc' = "returned"
    /\ UNCHANGED replacer_vars
    /\ UNCHANGED <<read, currentOptions, textToFindSet, replacementTextSet,
                   replacementOptions, load_pc>>
    /\ UNCHANGED <<disk, path, options, content, newContent, hasChanges,
                   newPath, needsRename>>

\* The hasChanges branch up to the end of the write: the check of the
\* destination, the opening of the output file (which can fail) and the
\* write.
WriteContent ==
    /\ file_pc = "decided"
    /\ ~options.dryRun
    /\ hasChanges
    /\ IF needsRename /\ exists(disk, newPath)
       THEN file_pc' = "thrown" /\ UNCHANGED disk
       ELSE \E opened \in BOOLEAN :
               IF opened
               THEN file_pc' = "written" /\ disk' = write_file(disk, path, newContent)
               ELSE file_pc' = "thrown" /\ UNCHANGED disk
    /\ UNCHANGED replacer_vars
    /\ UNCHANGED <<read, currentOptions, textToFindSet, replacementTextSet,
                   replacementOptions, load_pc>>
    /\ UNCHANGED <<path, options, content, newContent, hasChanges, newPath,
                   needsRename>>

\* The rest of the hasChanges branch: the rename after the write.
RenameWritten ==
    /\ file_pc = "written"
    /\ disk' = IF needsRename THEN rename(disk, path, newPath) ELSE disk
    /\ file_pc' = "returned"
    /\ UNCHANGED replacer_vars
    /\ UNCHANGED <<read, currentOptions, textToFindSet, replacementTextSet,
                   replacementOptions, load_pc>>
    /\ UNCHANGED <<path, options, content, newContent, hasChanges, newPath,
                   needsRename>>

\* The branch for a rename without a change of the content.
RenameOnly ==
    /\ file_pc = "decided"
    /\ ~options.dryRun
    /\ ~hasChanges
    /\ needsRename
    /\ IF exists(disk, newPath)
       THEN file_pc' = "thrown" /\ UNCHANGED disk
       ELSE file_pc' = "returned" /\ disk' = rename(disk, path, newPath)
    /\ UNCHANGED replacer_vars
    /\ UNCHANGED <<read, currentOptions, textToFindSet, replacementTextSet,
                   replacementOptions, load_pc>>
    /\ UNCHANGED <<path, options, content, newContent, hasChanges, newPath,
                   needsRename>>

NextFile ==
    \/ BuildReplacer
    \/ ReadFile
    \/ CallFindAndReplace
    \/ LoopIteration
    \/ WriteRemaining
    \/ CheckChanges
    \/ CheckRename
    \/ ReturnUnchanged
    \/ WriteContent
    \/ RenameWritten
    \/ RenameOnly

SpecFile == InitFile /\ [][NextFile]_vars

\* processFile has found that the file must be renamed to a name that
\* exists, and it is no dry run.
Collision ==
    /\ file_pc = "decided"
    /\ ~options.dryRun
    /\ needsRename
    /\ newPath \in DOMAIN disk

C30_Step ==
    /\ Collision => (file_pc' = "thrown" /\ disk' = disk)
    /\ options.dryRun => disk' = disk
    /\ file_pc \in {"build", "content", "stem"} => disk' = disk

\* After a throw the file has its name and the content that was read.
C30_Thrown ==
    (file_pc = "thrown" /\ (hasChanges \/ needsRename))
    => (path \in DOMAIN disk /\ disk[path] = content)

\* C30: when processFile has to rename the file and the destination exists,
\* its next step throws and leaves the directory as it is, the content of
\* the file included; in a dry run, and before processFile has decided what
\* to do, no step changes the directory.
C30_CollisionThrowsBeforeWrite ==
    /\ [][C30_Step]_vars
    /\ []C30_Thrown

\* C30 witness: processFile has thrown for a file whose content changes and
\* whose new name is the name of the other file; the file still has the
\* content that was read.
C30_Witness ==
    /\ file_pc = "thrown"
    /\ ~options.dryRun
    /\ hasChanges
    /\ newContent # content
    /\ needsRename
    /\ newPath # path
    /\ newPath \in DOMAIN disk
    /\ disk[path] = content
    /\ disk[newPath] = <<>>

====
